---- MODULE Spec2Model ----
(***************************************************************************)
(* Model of BH_Scrubber (src/bh_Scrubber.py).                              *)
(*                                                                         *)
(* Part 1, the compressed row model of ODSHandler: a table is a sequence   *)
(* of rows, a row the sequence of its table:table-cell children, a cell    *)
(* the record of what the code reads and writes of the element:            *)
(*   p      the texts of its text:p children, in order                     *)
(*   style  its table:style-name attribute, None when absent               *)
(*   vtype  its office:value-type attribute, None when absent              *)
(*   rep    int(table:number-columns-repeated), 1 when absent              *)
(* Rows hold table:table-cell children only (the Row of the data model),   *)
(* so the index of a cell in row.findall(...) is its index in the row.     *)
(*                                                                         *)
(* Part 2, OfficeHolidaysParser: the parser object's fields, driven by the *)
(* handle_starttag / handle_endtag / handle_data callbacks.                *)
(* Strings are sequences of characters, so that strip(), lower() and the   *)
(* substring test compute; a class attribute is the set of its words; a    *)
(* datetime attribute is its year, month and day numbers, <<>> when the    *)
(* attribute is absent, and strptime accepts it when they name a day of    *)
(* the calendar.                                                           *)
(***************************************************************************)
EXTENDS Integers, Sequences, FiniteSets, TLC

\* Python's None, and an attribute that is absent.
None == "<none>"

\* ------------------------------------------------------------------ bounds
\* Columns addressed are 0 .. MaxWidth-1; rows start at most MaxWidth wide.
MaxWidth == 3
\* Number of runs of a row of the loaded template.
MaxInitRuns == 2
\* Years in the list given to fetch_holidays.
MaxYears == 3
\* Days one buildHeader call appends.
MaxDays == 3
\* Logical width a header row grows to.
MaxHeaderWidth == 5
\* Cells a markup row opens.
MaxCells == 4
\* Characters of text a page puts in one of the parser's text buffers.
MaxText == 8
\* Records a page yields: the page ends with its MaxHolidays-th record.
MaxHolidays == 1
\* Records fetch_holidays returns for one country.
MaxRecords == 2

\* ------------------------------------------------------- ODSHandler: cells

AMBER == "AmberHoliday"
PINK == "PinkHoliday"
GREEN == "GreenRow"
GREY == "GreyRow"

\* ET.Element('table-cell'): no attribute, no child; `missing` columns wide.
NewCell(missing) ==
    [p |-> <<>>, style |-> None, vtype |-> None, rep |-> missing]

\* int(repeated) if repeated else 1
Count(cell) == cell.rep

RECURSIVE WidthOf(_)
\* The `current_width` loop of get_cell_node.
WidthOf(cells) ==
    IF cells = <<>> THEN 0 ELSE Count(Head(cells)) + WidthOf(Tail(cells))

RECURSIVE expand_row(_)
\* The flat list of text values of a row, one per logical column.
expand_row(row) ==
    IF row = <<>> THEN <<>>
    ELSE LET cell == Head(row)
             text == IF cell.p # <<>> THEN cell.p[1] ELSE ""
         IN [k \in 1..Count(cell) |-> text] \o expand_row(Tail(row))

\* current_col when the scan of get_cell_node reaches cells[i].
ColStart(cells, i) == WidthOf(SubSeq(cells, 1, i - 1))

\* The cell the scan stops at: current_col <= col_idx < current_col + count.
\* 0 when the loop runs off the end of the row.
FindRun(cells, col_idx) ==
    LET hits == {i \in 1..Len(cells) :
                    /\ ColStart(cells, i) <= col_idx
                    /\ col_idx < ColStart(cells, i) + Count(cells[i])}
    IN IF hits = {} THEN 0 ELSE CHOOSE i \in hits : \A j \in hits : i <= j

\* missing = (col_idx - current_width) + 1
MissingOffByOne(col_idx, current_width) == col_idx - current_width
Missing(col_idx, current_width) == (col_idx - current_width) + 1

\* pre_count = col_idx - current_col
PreCount(col_idx, current_col) == col_idx - current_col

\* post_count = (current_col + count) - (col_idx + 1)
PostCountOffByOne(current_col, count, col_idx) == (current_col + count) - col_idx
PostCount(current_col, count, col_idx) == (current_col + count) - (col_idx + 1)

\* The split pieces. ET.Element(tag, base_attribs) copies the attributes of the
\* run (less number-columns-repeated) and none of its children.
NewCellsListWideTarget(cell, pre_count, post_count) ==
    LET base == [p |-> <<>>, style |-> cell.style, vtype |-> cell.vtype, rep |-> 1]
    IN  (IF pre_count > 0 THEN << [base EXCEPT !.rep = pre_count] >> ELSE <<>>)
        \o << [base EXCEPT !.rep = 2] >>
        \o (IF post_count > 1 THEN << [base EXCEPT !.rep = post_count - 1] >> ELSE <<>>)
NewCellsListKeepsEmpty(cell, pre_count, post_count) ==
    LET base == [p |-> <<>>, style |-> cell.style, vtype |-> cell.vtype, rep |-> 1]
    IN  << [base EXCEPT !.rep = pre_count] >>
        \o <<base>>
        \o << [base EXCEPT !.rep = post_count] >>
NewCellsListTargetFirst(cell, pre_count, post_count) ==
    LET base == [p |-> <<>>, style |-> cell.style, vtype |-> cell.vtype, rep |-> 1]
    IN  <<base>>
        \o (IF pre_count > 0 THEN << [base EXCEPT !.rep = pre_count] >> ELSE <<>>)
        \o (IF post_count > 0 THEN << [base EXCEPT !.rep = post_count] >> ELSE <<>>)
NewCellsList(cell, pre_count, post_count) ==
    LET base == [p |-> <<>>, style |-> cell.style, vtype |-> cell.vtype, rep |-> 1]
    IN  (IF pre_count > 0 THEN << [base EXCEPT !.rep = pre_count] >> ELSE <<>>)
        \o <<base>>
        \o (IF post_count > 0 THEN << [base EXCEPT !.rep = post_count] >> ELSE <<>>)

\* row.remove(cell); for nc in reversed(new_cells_list): row.insert(i, nc)
ReplaceAt(cells, i, new_cells_list) ==
    SubSeq(cells, 1, i - 1) \o new_cells_list \o SubSeq(cells, i + 1, Len(cells))

\* get_cell_node(row_idx, col_idx, auto_extend). Returns the table after the
\* call, whether a cell was returned, and the returned cell's index in its row.
NotFoundAddsCell(tbl) ==
    [table |-> IF tbl = <<>> THEN <<<<NewCell(1)>>>>
               ELSE [tbl EXCEPT ![1] = Append(@, NewCell(1))],
     found |-> FALSE, idx |-> 0]
NotFound(tbl) == [table |-> tbl, found |-> FALSE, idx |-> 0]
get_cell_node(tbl, row_idx, col_idx, auto_extend) ==
    IF row_idx >= Len(tbl) THEN NotFound(tbl)
    ELSE
    LET row == tbl[row_idx + 1]
        current_width == WidthOf(row)
    IN
    IF col_idx >= current_width /\ ~auto_extend THEN NotFound(tbl)
    ELSE
    LET cells == IF col_idx >= current_width
                 THEN Append(row, NewCell(Missing(col_idx, current_width)))
                 ELSE row
        i == FindRun(cells, col_idx)
    IN
    IF i = 0 THEN NotFound([tbl EXCEPT ![row_idx + 1] = cells])
    ELSE IF Count(cells[i]) > 1
    THEN LET current_col == ColStart(cells, i)
             pre_count == PreCount(col_idx, current_col)
             post_count == PostCount(current_col, Count(cells[i]), col_idx)
             split == ReplaceAt(cells, i, NewCellsList(cells[i], pre_count, post_count))
         IN [table |-> [tbl EXCEPT ![row_idx + 1] = split],
             found |-> TRUE,
             idx |-> IF pre_count > 0 THEN i + 1 ELSE i]
    ELSE [table |-> [tbl EXCEPT ![row_idx + 1] = cells], found |-> TRUE, idx |-> i]

\* update_cell_text that leaves a cell alone when it already shows a text.
update_cell_textOnlyIfEmpty(tbl, row_idx, col_idx, text_val, style_name) ==
    LET r == get_cell_node(tbl, row_idx, col_idx, TRUE) IN
    IF ~r.found \/ r.table[row_idx + 1][r.idx].p # <<>> THEN r.table
    ELSE
    LET cell == r.table[row_idx + 1][r.idx]
        cleared == [cell EXCEPT !.p = <<>>]
        texted == IF text_val # None /\ text_val # ""
                  THEN [cleared EXCEPT !.p = <<text_val>>, !.vtype = "string"]
                  ELSE cleared
        styled == IF style_name # None /\ style_name # ""
                  THEN [texted EXCEPT !.style = style_name]
                  ELSE texted
    IN [r.table EXCEPT ![row_idx + 1][r.idx] = styled]
\* update_cell_text without the loop that removes the text:p children.
update_cell_textNoClear(tbl, row_idx, col_idx, text_val, style_name) ==
    LET r == get_cell_node(tbl, row_idx, col_idx, TRUE) IN
    IF ~r.found THEN r.table
    ELSE
    LET cell == r.table[row_idx + 1][r.idx]
        texted == IF text_val # None /\ text_val # ""
                  THEN [cell EXCEPT !.p = @ \o <<text_val>>, !.vtype = "string"]
                  ELSE cell
        styled == IF style_name # None /\ style_name # ""
                  THEN [texted EXCEPT !.style = style_name]
                  ELSE texted
    IN [r.table EXCEPT ![row_idx + 1][r.idx] = styled]
\* update_cell_text(row_idx, col_idx, text_val, style_name)
update_cell_text(tbl, row_idx, col_idx, text_val, style_name) ==
    LET r == get_cell_node(tbl, row_idx, col_idx, TRUE) IN
    IF ~r.found THEN r.table
    ELSE
    LET cell == r.table[row_idx + 1][r.idx]
        cleared == [cell EXCEPT !.p = <<>>]
        texted == IF text_val # None /\ text_val # ""
                  THEN [cleared EXCEPT !.p = <<text_val>>, !.vtype = "string"]
                  ELSE cleared
        styled == IF style_name # None /\ style_name # ""
                  THEN [texted EXCEPT !.style = style_name]
                  ELSE texted
    IN [r.table EXCEPT ![row_idx + 1][r.idx] = styled]

\* `not force and exclude_styles and current_style in exclude_styles`
\* (exclude_styles None or an empty list is the empty set).
SkipsCellIgnoringForce(current_style, exclude_styles, force) ==
    current_style \in exclude_styles
SkipsCell(current_style, exclude_styles, force) ==
    ~force /\ exclude_styles # {} /\ current_style \in exclude_styles

RECURSIVE ApplyFrom(_, _, _, _, _, _, _)
\* The body of apply_row_style's loop, from c_idx to end_col.
ApplyFrom(tbl, row_idx, c_idx, end_col, style_name, exclude_styles, force) ==
    IF c_idx > end_col THEN tbl
    ELSE
    LET r == get_cell_node(tbl, row_idx, c_idx, TRUE)
        t == IF ~r.found THEN r.table
             ELSE IF SkipsCell(r.table[row_idx + 1][r.idx].style, exclude_styles, force)
                  THEN r.table
                  ELSE [r.table EXCEPT ![row_idx + 1][r.idx].style = style_name]
    IN ApplyFrom(t, row_idx, c_idx + 1, end_col, style_name, exclude_styles, force)

\* apply_row_style(row_idx, start_col, end_col, style_name, exclude_styles, force)
apply_row_styleRowBelow(tbl, row_idx, start_col, end_col, style_name, exclude_styles, force) ==
    ApplyFrom(tbl, IF row_idx + 1 < Len(tbl) THEN row_idx + 1 ELSE row_idx,
              start_col, end_col, style_name, exclude_styles, force)
apply_row_style(tbl, row_idx, start_col, end_col, style_name, exclude_styles, force) ==
    ApplyFrom(tbl, row_idx, start_col, end_col, style_name, exclude_styles, force)

\* ------------------------------------------------- OfficeHolidaysParser

\* ---------------------------------------------------------- calendar header

\* datetime(y, m, d) as <<y, m, d>>.
DaysInMonth(y, m) ==
    IF m = 2 THEN (IF (y % 4 = 0 /\ y % 100 # 0) \/ (y % 400 = 0) THEN 29 ELSE 28)
    ELSE IF m \in {4, 6, 9, 11} THEN 30 ELSE 31

\* current_date += timedelta(days=1)
NextDay(d) ==
    IF d[3] < DaysInMonth(d[1], d[2]) THEN <<d[1], d[2], d[3] + 1>>
    ELSE IF d[2] < 12 THEN <<d[1], d[2] + 1, 1>>
    ELSE <<d[1] + 1, 1, 1>>

RECURSIVE AddDays(_, _)
\* start_date + timedelta(days=i), i >= 0
AddDays(d, i) == IF i <= 0 THEN d ELSE AddDays(NextDay(d), i - 1)

\* strftime('%a'): the day of the week, 0 for Sunday.
WeekdayOf(d) ==
    LET t == <<0, 3, 2, 5, 0, 3, 5, 1, 4, 6, 2, 4>>
        y == IF d[2] < 3 THEN d[1] - 1 ELSE d[1]
    IN (y + (y \div 4) - (y \div 100) + (y \div 400) + t[d[2]] + d[3]) % 7

DayNames == <<"Sun", "Mon", "Tue", "Wed", "Thu", "Fri", "Sat">>

\* strftime('%d'), '%m', '%y': two digits.
TwoDigits(n) == IF n < 10 THEN "0" \o ToString(n) ELSE ToString(n)

\* current_date.strftime('%a %d/%m/%y')
DateStr(d) ==
    DayNames[WeekdayOf(d) + 1] \o " " \o TwoDigits(d[3]) \o "/"
        \o TwoDigits(d[2]) \o "/" \o TwoDigits(d[1] % 100)

\* The header cell of a day, with number-columns-repeated 2.
HeaderCellRepeated(d) ==
    [p |-> <<DateStr(d)>>, style |-> None, vtype |-> "string", rep |-> 2]
\* The header cell of a day: a string cell with one text:p.
HeaderCell(d) ==
    [p |-> <<DateStr(d)>>, style |-> None, vtype |-> "string", rep |-> 1]

\* datetime(current_date.year, current_date.month, 1): the first of the month.
NormalizedToMonth(d) == <<d[1], d[2], 1>>
\* datetime(current_date.year, current_date.month, current_date.day)
Normalized(d) == <<d[1], d[2], d[3]>>

\* dm[key] = value - 1: the column one to the left.
DictSetOffByOne(dm, key, value) ==
    [k \in (DOMAIN dm) \cup {key} |-> IF k = key THEN value - 1 ELSE dm[k]]
\* dm[key] = value on a dict.
DictSet(dm, key, value) ==
    [k \in (DOMAIN dm) \cup {key} |-> IF k = key THEN value ELSE dm[k]]

RECURSIVE HeaderLoop(_, _, _, _, _, _)
\* for i in range(duration_days): append the cell, map the date, step a day.
HeaderLoop(header_row, dm, current_date, i, duration_days, start_col_idx) ==
    IF i >= duration_days THEN [row |-> header_row, date_map |-> dm]
    ELSE HeaderLoop(Append(header_row, HeaderCell(current_date)),
                    DictSet(dm, Normalized(current_date), start_col_idx + i),
                    NextDay(current_date), i + 1, duration_days, start_col_idx)

\* generate_calendar_headers that appends the cells and maps no day.
generate_calendar_headersNoMap(tbl, dm, start_date, duration_days) ==
    IF tbl = <<>> THEN [table |-> tbl, date_map |-> dm]
    ELSE LET start_col_idx == Len(expand_row(tbl[1]))
             r == HeaderLoop(tbl[1], dm, start_date, 0, duration_days,
                             start_col_idx)
         IN [table |-> [tbl EXCEPT ![1] = r.row], date_map |-> dm]
\* generate_calendar_headers(start_date, duration_days)
generate_calendar_headers(tbl, dm, start_date, duration_days) ==
    IF tbl = <<>> THEN [table |-> tbl, date_map |-> dm]
    ELSE LET start_col_idx == Len(expand_row(tbl[1]))
             r == HeaderLoop(tbl[1], dm, start_date, 0, duration_days,
                             start_col_idx)
         IN [table |-> [tbl EXCEPT ![1] = r.row], date_map |-> r.date_map]

\* ------------------------------------------------------------ style registry

\* office:automatic-styles of the content tree: whether the element is there,
\* and its style:style children in order. A style:style is its style:name, its
\* style:family, the fo:background-color of its table-cell-properties and the
\* fo:font-size of its text-properties (None without one).
NoRegistry == [present |-> FALSE, styles |-> <<>>]

NewStyle(name, bg_color, font_size) ==
    [name |-> name, family |-> "table-cell", bg |-> bg_color, font |-> font_size]

\* _create_style without the search for an existing style of that name.
CreateStyleAlways(reg, name, bg_color, font_size) ==
    [reg |-> [present |-> TRUE,
              styles |-> Append(reg.styles, NewStyle(name, bg_color, font_size))],
     ret |-> name]
\* _create_style(name, bg_color, font_size): the registry after, and the
\* returned name.
create_style(reg, name, bg_color, font_size) ==
    LET auto == IF reg.present THEN reg ELSE [present |-> TRUE, styles |-> <<>>]
    IN  IF \E k \in 1..Len(auto.styles) : auto.styles[k].name = name
        THEN [reg |-> auto, ret |-> name]
        ELSE [reg |-> [auto EXCEPT !.styles =
                           Append(@, NewStyle(name, bg_color, font_size))],
              ret |-> name]

\* ensure_styles(): the four styles of the run, in order.
ensure_styles(reg) ==
    LET a == create_style(reg, AMBER, "#ffbf00", "6pt").reg
        b == create_style(a, PINK, "#ffb6c1", "6pt").reg
        c == create_style(b, GREEN, "#ccffcc", None).reg
    IN create_style(c, GREY, "#808080", None).reg

\* ------------------------------------------------------------------- archive

\* content.xml as the sequence of its tags. A tag is its kind, and the
\* attributes and text the model keeps of it.
Tag(kind, text, style, vtype, rep) ==
    [kind |-> kind, text |-> text, style |-> style, vtype |-> vtype, rep |-> rep]

\* ET.tostring of the text:p children of a cell.
RECURSIVE TextTags(_)
TextTags(ps) ==
    IF ps = <<>> THEN <<>>
    ELSE <<Tag("p", Head(ps), None, None, 1)>> \o TextTags(Tail(ps))

\* ET.tostring of the cells of a row.
RECURSIVE CellTags(_)
CellTags(cells) ==
    IF cells = <<>> THEN <<>>
    ELSE <<Tag("cell", None, Head(cells).style, Head(cells).vtype, Head(cells).rep)>>
         \o TextTags(Head(cells).p) \o <<Tag("/cell", None, None, None, 1)>>
         \o CellTags(Tail(cells))

\* ET.tostring of the rows of the table.
RECURSIVE RowTags(_)
RowTags(rows) ==
    IF rows = <<>> THEN <<>>
    ELSE <<Tag("row", None, None, None, 1)>> \o CellTags(Head(rows))
         \o <<Tag("/row", None, None, None, 1)>> \o RowTags(Tail(rows))

\* ET.tostring of the style:style children of automatic-styles.
RECURSIVE StyleTags(_)
StyleTags(styles) ==
    IF styles = <<>> THEN <<>>
    ELSE <<Tag("style", Head(styles).name, Head(styles).bg, Head(styles).font, 1)>>
         \o StyleTags(Tail(styles))

\* ET.tostring(self.root, encoding='utf-8', xml_declaration=True)
tostring(reg, tbl) ==
    (IF reg.present
     THEN <<Tag("automatic-styles", None, None, None, 1)>> \o StyleTags(reg.styles)
          \o <<Tag("/automatic-styles", None, None, None, 1)>>
     ELSE <<>>)
    \o RowTags(tbl)

\* ET.parse: the tree read from tags[i..], added to the tree read so far.
RECURSIVE ParseFrom(_, _, _)
ParseFrom(tags, i, tree) ==
    IF i > Len(tags) THEN tree
    ELSE LET t == tags[i]
             rows == tree.table
             n == Len(rows)
             m == IF n = 0 THEN 0 ELSE Len(rows[n])
         IN ParseFrom(tags, i + 1,
              CASE t.kind = "automatic-styles" ->
                       [tree EXCEPT !.reg = [present |-> TRUE, styles |-> <<>>]]
                [] t.kind = "style" ->
                       [tree EXCEPT !.reg.styles =
                            Append(@, [name |-> t.text, family |-> "table-cell",
                                       bg |-> t.style, font |-> t.vtype])]
                [] t.kind = "row" -> [tree EXCEPT !.table = Append(@, <<>>)]
                [] t.kind = "cell" ->
                       [tree EXCEPT !.table[n] =
                            Append(@, [p |-> <<>>, style |-> t.style,
                                       vtype |-> t.vtype, rep |-> t.rep])]
                [] t.kind = "p" -> [tree EXCEPT !.table[n][m].p = Append(@, t.text)]
                [] OTHER -> tree)

\* ET.parse(f) of a content.xml.
parse(tags) == ParseFrom(tags, 1, [reg |-> NoRegistry, table |-> <<>>])

\* A file on disk: whether it exists, the members written to it so far, and
\* whether the archive was closed (its directory written).
NoFile == [exists |-> FALSE, members |-> <<>>, complete |-> FALSE]

\* zin.read(name): the data of the last member of that name.
ReadMember(archive, name) ==
    LET ks == { k \in 1..Len(archive.members) : archive.members[k].name = name }
        k == CHOOSE k \in ks : \A j \in ks : j <= k
    IN archive.members[k].data

\* save() that copies every member as read, content.xml too.
SavedMemberAsRead(zin, item, reg, tbl) ==
    [name |-> item.name, data |-> ReadMember(zin, item.name)]
\* What save() writes for the member `item` of zin: the serialized tree for
\* content.xml, and every other member as read.
SavedMember(zin, item, reg, tbl) ==
    IF item.name = "content.xml"
    THEN [name |-> item.name, data |-> tostring(reg, tbl)]
    ELSE [name |-> item.name, data |-> ReadMember(zin, item.name)]

\* ------------------------------------------------------------------- scraper

\* A URL is the sequence of its path segments after the host; a trailing "/"
\* is a trailing empty segment.
RECURSIVE RStripSlash(_)
\* base_url.rstrip('/')
RStripSlash(url) ==
    IF url # <<>> /\ url[Len(url)] = "" THEN RStripSlash(SubSeq(url, 1, Len(url) - 1))
    ELSE url

\* re.search(r'/\d{4}$', clean_url): the last segment is four digits.
EndsWithYear(url) ==
    /\ Len(url) >= 2
    /\ url[Len(url)] \in { ToString(y) : y \in 1990..2040 }

\* clean_url of fetch_holidays.
CleanUrl(base_url) ==
    LET clean_url == RStripSlash(base_url)
    IN  IF EndsWithYear(clean_url) THEN SubSeq(clean_url, 1, Len(clean_url) - 1)
        ELSE clean_url

\* f"{clean_url}/{year}"
UrlOf(base_url, year) == Append(CleanUrl(base_url), ToString(year))

\* fetch_holidays before its loop.
NewFetch(base_url, years) ==
    [base_url |-> base_url, years |-> years, i |-> 1, seen_urls |-> {},
     all_holidays |-> <<>>, requests |-> <<>>, returned |-> FALSE]

\* One request as the loop made it: the URL, what came back, what was printed
\* and the records taken from it.
Request(url, outcome, printed, records) ==
    [url |-> url, outcome |-> outcome, printed |-> printed, records |-> records]

\* datetime.now().year
CurrentYear == 2026

\* The loop body when the URL was seen: continue.
AfterSeen(f) == [f EXCEPT !.i = @ + 1]

\* The loop body when the page is read, decoded and parsed into `holidays`.
AfterSuccess(f, url, holidays) ==
    [f EXCEPT !.i = @ + 1,
              !.seen_urls = @ \cup {url},
              !.all_holidays = @ \o holidays,
              !.requests = Append(@, Request(url, "ok", None, holidays))]

\* The except branches that forget what was fetched before.
AfterFailureStartsOver(f, url, outcome, printed) ==
    [f EXCEPT !.i = @ + 1,
              !.seen_urls = @ \cup {url},
              !.all_holidays = <<>>,
              !.requests = Append(@, Request(url, outcome, printed, <<>>))]
\* The loop body when the request, the decoding or the parse raises: one of
\* the except branches prints and the loop goes on.
AfterFailure(f, url, outcome, printed) ==
    [f EXCEPT !.i = @ + 1,
              !.seen_urls = @ \cup {url},
              !.requests = Append(@, Request(url, outcome, printed, <<>>))]

\* What `except HTTPError` prints for a status code.
HTTPErrorPrints(code, year) ==
    IF code = 404 /\ year > CurrentYear THEN "note" ELSE "warning"

\* ------------------------------------------------------- orchestrating run

\* start <= d on datetimes at midnight.
DateLeq(a, b) ==
    \/ a[1] < b[1]
    \/ a[1] = b[1] /\ a[2] < b[2]
    \/ a[1] = b[1] /\ a[2] = b[2] /\ a[3] <= b[3]

\* `if start_date <= h_date <= end_date_inclusive`
InWindow(m, h_date) ==
    DateLeq(m.start_date, h_date) /\ DateLeq(h_date, m.end_date_inclusive)

\* `ods.amber if is_national else ods.pink`
HolidayStyle(is_national) == IF is_national THEN AMBER ELSE PINK

\* A line the run prints: its kind, and the date or the number it names.
Line(kind, date, n) == [kind |-> kind, date |-> date, n |-> n]

\* The run on a country with a source URL, as fetch_holidays returns: the
\* "Scraping" line is printed and count is 0.
NewMain(start_date, duration, row_idx, holidays) ==
    [pc |-> "loop", start_date |-> start_date,
     end_date_inclusive |-> AddDays(start_date, duration - 1),
     row_idx |-> row_idx, holidays |-> holidays, i |-> 1, count |-> 0,
     printed |-> <<Line("scraping", <<>>, 0)>>,
     duration |-> duration, loaded |-> <<>>, status |-> "Blank"]

\* No country is being populated.
NoMain ==
    [pc |-> "idle", start_date |-> <<>>, end_date_inclusive |-> <<>>,
     row_idx |-> 0, holidays |-> <<>>, i |-> 1, count |-> 0, printed |-> <<>>,
     duration |-> 0, loaded |-> <<>>, status |-> "Blank"]

\* The run as its country loop reaches the row row_idx: `loaded` is that row
\* as the loop finds it.
AtCountry(start_date, duration, row_idx, row) ==
    [NoMain EXCEPT !.pc = "country", !.start_date = start_date,
                   !.end_date_inclusive = AddDays(start_date, duration - 1),
                   !.row_idx = row_idx, !.duration = duration, !.loaded = row]

\* p.text.strip().lower() on the texts the status cells below hold.
StripLower(t) ==
    CASE t = "No " -> "no"
      [] t = " YES" -> "yes"
      [] OTHER -> t

\* The status of a country from its status cell (lines 506-513): "Blank"
\* without a text:p or without text in it.
StatusOf(cell) ==
    IF cell.p = <<>> \/ cell.p[1] = "" THEN "Blank"
    ELSE LET t == StripLower(cell.p[1])
         IN  IF t = "yes" THEN "Yes" ELSE IF t = "no" THEN "No" ELSE "Blank"

\* COUNTRY_COL of get_countries, the column the run reads the link from.
COUNTRY_COL == 3

\* A text:p that holds a text:a is modelled by the xlink:href of the link.
\* The links of the templates: a page of the publisher, a page elsewhere.
SourceLink == "https://www.officeholidays.com/countries/france"
OtherLink == "https://example.org/france"
IsLink(t) == t \in {SourceLink, OtherLink}

\* `url_text and "officeholidays.com" in url_text`
HasSource(url_text) == url_text = SourceLink

\* The path segments of a link, as fetch_holidays takes a base URL.
SegmentsOf(url_text) ==
    IF url_text = SourceLink THEN <<"countries", "france">> ELSE <<"france">>

\* The href read from the cell get_cell_node(row_idx, 3) returned: '' without
\* a text:p or without a link in it.
UrlText(r, row_idx) ==
    IF ~r.found THEN ""
    ELSE LET cell == r.table[row_idx + 1][r.idx]
         IN  IF cell.p # <<>> /\ IsLink(cell.p[1]) THEN cell.p[1] ELSE ""

\* max(ods.date_map.values()) if ods.date_map else 4 + duration
EndColIdx(dm, duration) ==
    IF DOMAIN dm = {} THEN 4 + duration
    ELSE CHOOSE c \in { dm[d] : d \in DOMAIN dm } : \A d \in DOMAIN dm : dm[d] <= c

\* sorted(list(years_to_scrape)): the years of the first and the last day.
YearsToScrape(m) ==
    IF m.start_date[1] = m.end_date_inclusive[1] THEN <<m.start_date[1]>>
    ELSE <<m.start_date[1], m.end_date_inclusive[1]>>

\* The row-colouring with the Grey pass sparing Amber and Pink cells.
ColouredSparingHolidays(tbl, row_idx, end_col_idx, status) ==
    IF status = "Yes"
    THEN apply_row_style(tbl, row_idx, 0, end_col_idx, GREEN, {AMBER, PINK}, FALSE)
    ELSE IF status = "No"
    THEN apply_row_style(tbl, row_idx, 0, end_col_idx, GREY, {AMBER, PINK}, FALSE)
    ELSE tbl
\* The row-colouring of the country loop (lines 518-521) for a status.
Coloured(tbl, row_idx, end_col_idx, status) ==
    IF status = "Yes"
    THEN apply_row_style(tbl, row_idx, 0, end_col_idx, GREEN, {AMBER, PINK}, FALSE)
    ELSE IF status = "No"
    THEN apply_row_style(tbl, row_idx, 0, end_col_idx, GREY, {}, TRUE)
    ELSE tbl

\* One turn of `for h_date, h_name, is_national in holidays` on a record the
\* window and the date map both hold: the cell is written and counted.
WrittenHoliday(m) == [m EXCEPT !.i = @ + 1, !.count = @ + 1]

\* One turn on a record outside the window, or in it and not in the date
\* map: the loop goes on and nothing is printed.
SkippedHoliday(m) == [m EXCEPT !.i = @ + 1]

\* print(f"  -> Added {count} holidays.")
AddedLine(m) ==
    [m EXCEPT !.pc = "done", !.printed = Append(@, Line("added", <<>>, m.count))]

\* Text is a sequence of characters.
WsChars == {" ", "\t"}

\* str.lower(), on the letters the page texts below use.
LowerChar(c) ==
    CASE c = "R" -> "r" [] c = "E" -> "e" [] c = "L" -> "l" [] c = "B" -> "b"
      [] OTHER -> c
Lower(s) == [i \in 1..Len(s) |-> LowerChar(s[i])]

RECURSIVE LStrip(_)
LStrip(s) == IF s # <<>> /\ Head(s) \in WsChars THEN LStrip(Tail(s)) ELSE s
RECURSIVE RStrip(_)
RStrip(s) ==
    IF s # <<>> /\ s[Len(s)] \in WsChars THEN RStrip(SubSeq(s, 1, Len(s) - 1)) ELSE s
\* str.strip()
Strip(s) == RStrip(LStrip(s))

\* `needle in haystack` on strings
Contains(haystack, needle) ==
    \E i \in 1..(Len(haystack) - Len(needle) + 1) :
        SubSeq(haystack, i, i + Len(needle) - 1) = needle

REGIONAL_KW == <<"r", "e", "g", "i", "o", "n", "a", "l">>
LOCAL_KW == <<"l", "o", "c", "a", "l">>

\* is_regional = 'regional' in type_lower or 'local' in type_lower
IsRegionalFirstOnly(type_lower) == Contains(type_lower, REGIONAL_KW)
IsRegional(type_lower) ==
    Contains(type_lower, REGIONAL_KW) \/ Contains(type_lower, LOCAL_KW)

\* A str-or-None field of the parser holds a text or NoneText.
NoneText == <<None>>

\* A datetime attribute is NoDate (None: the attribute is absent) or the three
\* number fields <<y, m, d>> of a "Y-M-D" text.
NoDate == <<>>
IsLeap(y) == (y % 4 = 0 /\ y % 100 # 0) \/ (y % 400 = 0)
DaysIn(y, m) ==
    IF m = 2 THEN (IF IsLeap(y) THEN 29 ELSE 28)
    ELSE IF m \in {4, 6, 9, 11} THEN 30 ELSE 31
\* Whether datetime.strptime(s, "%Y-%m-%d") returns (it raises ValueError
\* otherwise); it returns the day <<y, m, d>>.
StrptimeOk(s) ==
    /\ Len(s) = 3
    /\ s[1] \in 1..9999
    /\ s[2] \in 1..12
    /\ s[3] \in 1..DaysIn(s[1], s[2])

\* Python truthiness of a str-or-None.
Truthy(s) == s # NoneText /\ s # <<>>

\* The column whose cell holds the holiday type.
TypeColumn == 4

\* OfficeHolidaysParser.__init__
NewParser ==
    [in_table |-> FALSE, in_row |-> FALSE, current_cell_idx |-> 0,
     holidays |-> <<>>,
     temp_date |-> NoDate, temp_name |-> None, temp_type |-> NoneText,
     recording_name |-> FALSE, recording_type |-> FALSE,
     current_name_text |-> <<>>, current_type_text |-> <<>>]

\* handle_starttag(tag, attrs): class_name is the set of the words of the class
\* attribute, datetime the datetime attribute (NoDate when absent).
handle_starttag(q, tag, class_name, datetime) ==
    LET q1 == IF tag = "table" /\ "country-table" \in class_name
              THEN [q EXCEPT !.in_table = TRUE] ELSE q
        q2 == IF q1.in_table /\ tag = "tr"
              THEN [q1 EXCEPT !.in_row = TRUE, !.current_cell_idx = 0,
                              !.temp_date = NoDate, !.temp_name = None,
                              !.temp_type = NoneText, !.current_type_text = <<>>]
              ELSE q1
        q3 == IF q2.in_row /\ tag = "td"
              THEN IF q2.current_cell_idx + 1 = TypeColumn
                   THEN [q2 EXCEPT !.current_cell_idx = @ + 1,
                                   !.recording_type = TRUE,
                                   !.current_type_text = <<>>]
                   ELSE [q2 EXCEPT !.current_cell_idx = @ + 1]
              ELSE q2
        q4 == IF q3.in_row /\ tag = "time"
              THEN [q3 EXCEPT !.temp_date = datetime] ELSE q3
        q5 == IF q4.in_row /\ tag = "a" /\ "country-listing" \in class_name
              THEN [q4 EXCEPT !.recording_name = TRUE, !.current_name_text = <<>>]
              ELSE q4
    IN q5

\* The record appended when a row closes.
NewHoliday(q) ==
    [date |-> q.temp_date,
     name |-> Strip(q.current_name_text),
     is_national |->
        ~IsRegional(Lower(IF q.temp_type = NoneText THEN <<>> ELSE q.temp_type))]

\* `if self.temp_date and self.current_name_text:` and strptime not raising.
Emits(q) ==
    /\ q.temp_date # NoDate
    /\ Truthy(q.current_name_text)
    /\ StrptimeOk(q.temp_date)

\* handle_endtag(tag)
handle_endtag(q, tag) ==
    LET q1 == IF tag = "table" THEN [q EXCEPT !.in_table = FALSE] ELSE q
        q2 == IF tag = "td" /\ q1.recording_type
              THEN [q1 EXCEPT !.recording_type = FALSE,
                              !.temp_type = Strip(q1.current_type_text)]
              ELSE q1
        q3 == IF tag = "tr"
              THEN IF Emits(q2)
                   THEN [q2 EXCEPT !.in_row = FALSE,
                                   !.holidays = Append(@, NewHoliday(q2))]
                   ELSE [q2 EXCEPT !.in_row = FALSE]
              ELSE q2
        q4 == IF tag = "a" THEN [q3 EXCEPT !.recording_name = FALSE] ELSE q3
    IN q4

\* handle_data that takes every text into the name.
handle_dataAlways(q, data) ==
    LET q1 == [q EXCEPT !.current_name_text = @ \o data]
        q2 == IF q1.recording_type
              THEN [q1 EXCEPT !.current_type_text = @ \o data] ELSE q1
    IN q2
\* handle_data(data)
handle_data(q, data) ==
    LET q1 == IF q.recording_name
              THEN [q EXCEPT !.current_name_text = @ \o data] ELSE q
        q2 == IF q1.recording_type
              THEN [q1 EXCEPT !.current_type_text = @ \o data] ELSE q1
    IN q2

\* ------------------------------------------------------------- sheet state

VARIABLES
    table,      \* ODSHandler.table: the rows of the sheet
    prev,       \* the table as it was before the last call
    op,         \* the last call: its name, arguments and result
    parser,     \* the OfficeHolidaysParser object
    last,       \* what the last markup event did: whether it appended a
                \* record, and in_table / in_row as they were before it; for
                \* a time element or a text, the recording flags before it
                \* and whether a buffer grew
    rowInfo,    \* the markup row last entered: whether it held a
                \* country-listing anchor, whether type recording was active
                \* when it was entered, the text of its 4th cell and the
                \* text received under name recording since its last
                \* country-listing anchor opened
    ref,        \* a second OfficeHolidaysParser, fed the same page with one
                \* dateless row taken out
    dropped,    \* that row: "none" not met yet, "open" being read, "done"
    date_map,   \* ODSHandler.date_map: the column of each calendar day
    auto_styles,    \* the office:automatic-styles element of the tree
    prevStyles,     \* auto_styles as it was before the last call
    dest,       \* the file at self.filename
    temp,       \* the file at self.filename + ".temp_swp"
    pc,         \* where save() is: "idle", "writing", "move", "copy",
                \* "unlink", "done" or "failed"
    original,   \* the archive as load() found it
    fetch,      \* a call of HolidayScraper.fetch_holidays: its arguments, the
                \* loop index, seen_urls, all_holidays, the requests made so
                \* far and whether it has returned
    main        \* the holiday loop of the orchestrating run on one country:
                \* the calendar window, the row, the records, the loop
                \* index, the count and the lines printed

sheetVars == <<table, prev, op>>
parserVars == <<parser, last, rowInfo>>
pairVars == <<ref, dropped>>
calVars == <<date_map>>
styleVars == <<auto_styles, prevStyles>>
fileVars == <<dest, temp, pc, original>>
fetchVars == <<fetch>>
mainVars == <<main>>

Run(content, k) ==
    [p |-> content.p, style |-> content.style, vtype |-> content.vtype, rep |-> k]

RECURSIVE RowsOfLen(_, _)
RowsOfLen(n, contents) ==
    IF n = 0 THEN { <<>> }
    ELSE { Append(r, Run(c, k)) :
             r \in RowsOfLen(n - 1, contents), c \in contents, k \in 1..MaxWidth }

\* Rows as load() can find them: at most MaxInitRuns runs of repeat-count >= 1.
RowsOver(contents) ==
    { r \in UNION { RowsOfLen(n, contents) : n \in 0..MaxInitRuns } :
        WidthOf(r) <= MaxWidth }

\* Contents of the runs of a template row: blank, or a highlighted status text.
TextContents ==
    { [p |-> <<>>, style |-> None, vtype |-> None],
      [p |-> <<"yes">>, style |-> AMBER, vtype |-> "string"] }

\* Contents of the runs of a row in the styling runs: blank, plain or highlighted.
StyleContents ==
    { [p |-> <<>>, style |-> None, vtype |-> None],
      [p |-> <<>>, style |-> AMBER, vtype |-> None] }

Cols == 0..(MaxWidth - 1)

\* (style_name, exclude_styles, force) as the callers of apply_row_style pass them.
ApplyModes ==
    { [style |-> GREEN, excl |-> {AMBER, PINK}, force |-> FALSE],
      [style |-> GREEN, excl |-> {},            force |-> FALSE],
      [style |-> GREEN, excl |-> {AMBER, PINK}, force |-> TRUE] }

NoOp ==
    [name |-> "load", row |-> 0, col |-> 0, end |-> 0, auto |-> FALSE,
     text |-> None, style |-> None, excl |-> {}, force |-> FALSE,
     found |-> FALSE, idx |-> 0, date |-> NoDate, days |-> 0, dm |-> <<>>,
     ret |-> None, again |-> FALSE, wasIdx |-> 0]

NoEmit ==
    [emitted |-> FALSE, wasInTable |-> FALSE, wasInRow |-> FALSE,
     event |-> "none", recName |-> FALSE, recType |-> FALSE,
     nameGrew |-> FALSE, typeGrew |-> FALSE]
NoRow ==
    [anchor |-> FALSE, leak |-> FALSE, c4open |-> FALSE, c4text |-> <<>>,
     heard |-> <<>>]

\* No page is being parsed.
ParserIdle ==
    /\ parser = NewParser
    /\ last = NoEmit
    /\ rowInfo = NoRow
    /\ ref = NewParser
    /\ dropped = "none"

\* The tree has no automatic-styles element.
StylesIdle == auto_styles = NoRegistry /\ prevStyles = NoRegistry

\* No archive is on disk and no save under way.
FilesIdle == dest = NoFile /\ temp = NoFile /\ pc = "idle" /\ original = NoFile

\* No fetch_holidays call is under way.
FetchIdle == fetch = NewFetch(<<>>, <<>>)

\* No country is being populated.
MainIdle == main = NoMain

\* No sheet is loaded.
SheetIdle == table = <<>> /\ prev = <<>> /\ op = NoOp /\ date_map = <<>>

SheetInit ==
    /\ ParserIdle
    /\ StylesIdle
    /\ FilesIdle
    /\ FetchIdle
    /\ MainIdle
    /\ table \in { <<r>> : r \in RowsOver(TextContents) }
    /\ prev = table
    /\ op = NoOp
    /\ date_map = <<>>

StyleInit ==
    /\ ParserIdle
    /\ StylesIdle
    /\ FilesIdle
    /\ FetchIdle
    /\ MainIdle
    /\ table \in { <<r>> : r \in RowsOver(StyleContents) }
    /\ prev = table
    /\ op = NoOp
    /\ date_map = <<>>

\* locateCell: a caller's get_cell_node(row_idx, col_idx, auto_extend); row_idx
\* Len(table) is one past the last row.
LocateIn(rows) ==
    \E row_idx \in rows, col_idx \in Cols, auto_extend \in BOOLEAN :
        LET r == get_cell_node(table, row_idx, col_idx, auto_extend) IN
        /\ table' = r.table
        /\ prev' = table
        /\ op' = [NoOp EXCEPT !.name = "locate", !.row = row_idx, !.col = col_idx,
                              !.auto = auto_extend, !.found = r.found, !.idx = r.idx,
                              !.again = /\ op.name = "locate" /\ op.found
                                        /\ op.row = row_idx /\ op.col = col_idx,
                              !.wasIdx = IF /\ op.name = "locate" /\ op.found
                                            /\ op.row = row_idx /\ op.col = col_idx
                                         THEN op.idx ELSE 0]

LocateCell == LocateIn(0..Len(table))

\* update_cell_text(row_idx, col_idx, text_val, style_name) by a caller, the
\* (text_val, style_name) pair drawn from `args`.
UpdateCellTextIn(rows, args) ==
    \E row_idx \in rows, col_idx \in Cols, a \in args :
        /\ table' = update_cell_text(table, row_idx, col_idx, a[1], a[2])
        /\ prev' = table
        /\ op' = [NoOp EXCEPT !.name = "text", !.row = row_idx, !.col = col_idx,
                              !.text = a[1], !.style = a[2]]

UpdateCellText(args) == UpdateCellTextIn(0..(Len(table) - 1), args)

\* setCellText: clear a cell, or write a holiday name with or without a style.
SetCellText == UpdateCellText({ <<None, None>>, <<"h1", None>>, <<"h1", AMBER>> })

\* setCellText that writes no text: clear a cell, or highlight it.
SetCellStyle == UpdateCellText({ <<None, None>>, <<None, AMBER>> })

\* applyStyleRange: apply_row_style(row_idx, start_col, end_col, style_name,
\* exclude_styles, force).
ApplyIn(rows, starts) ==
    \E row_idx \in rows, start_col \in starts, end_col \in Cols,
       m \in ApplyModes :
        /\ table' = apply_row_style(table, row_idx, start_col, end_col,
                                    m.style, m.excl, m.force)
        /\ prev' = table
        /\ op' = [NoOp EXCEPT !.name = "apply", !.row = row_idx, !.col = start_col,
                              !.end = end_col, !.style = m.style,
                              !.excl = m.excl, !.force = m.force]

ApplyStyleRange == ApplyIn(0..(Len(table) - 1), Cols)

\* Contents of the runs of a template header row: blank, or a column title.
HeaderContents ==
    { [p |-> <<>>, style |-> None, vtype |-> None],
      [p |-> <<"Country">>, style |-> GREY, vtype |-> "string"] }

\* The country rows under the header: empty, or a highlighted status.
CountryRows ==
    { <<>>, <<Run([p |-> <<"yes">>, style |-> AMBER, vtype |-> "string"], 2)>> }

\* The first day of a calendar: the last day of 2025, or the first of 2026.
StartDates == { <<2025, 12, 31>>, <<2026, 1, 1>> }

\* The header rows of a template: no cell, or one run of title or blank cells.
HeaderRows == { h \in RowsOver(HeaderContents) : Len(h) <= 1 }

\* load() of a template with a header row and a country row, or with no row.
HeaderInit ==
    /\ ParserIdle
    /\ StylesIdle
    /\ FilesIdle
    /\ FetchIdle
    /\ MainIdle
    /\ table \in { <<>> } \cup { <<h, c>> : h \in HeaderRows, c \in CountryRows }
    /\ prev = table
    /\ op = NoOp
    /\ date_map = <<>>

\* buildHeader: generate_calendar_headers(start_date, duration_days).
BuildHeaderIn(starts, durations) ==
    \E start_date \in starts, duration_days \in durations :
        LET r == generate_calendar_headers(table, date_map, start_date,
                                           duration_days) IN
        /\ table # <<>> => WidthOf(table[1]) + duration_days <= MaxHeaderWidth
        /\ table' = r.table
        /\ date_map' = r.date_map
        /\ prev' = table
        /\ op' = [NoOp EXCEPT !.name = "header", !.date = start_date,
                              !.days = duration_days, !.dm = date_map]

BuildHeader == BuildHeaderIn(StartDates, 0..MaxDays)

\* setCellText as the holiday loop calls it: a name and the Amber style.
WriteHoliday == UpdateCellText({ <<"h1", AMBER>> })

\* applyStyleRange as the orchestrating run calls it: from column 0.
ColourRow == ApplyIn(0..(Len(table) - 1), {0})

\* The one call the orchestrating run makes, on a sheet with no calendar yet.
BuildHeaderOnce ==
    /\ date_map = <<>>
    /\ BuildHeaderIn({<<2026, 1, 1>>}, 1..(MaxDays - 1))

\* The orchestrating run on a country row (the rows under the header): it
\* locates a cell.
CountryRowIdx == 1..(Len(table) - 1)
LocateCountryCell == LocateIn(CountryRowIdx)

\* The orchestrating run on a country row: it writes a holiday, it colours
\* the row from column 0.
WriteCountryHoliday == UpdateCellTextIn(CountryRowIdx, { <<"h1", AMBER>> })
ColourCountryRow ==
    \E row_idx \in CountryRowIdx, end_col \in Cols :
        /\ table' = apply_row_style(table, row_idx, 0, end_col, GREEN,
                                    {AMBER, PINK}, FALSE)
        /\ prev' = table
        /\ op' = [NoOp EXCEPT !.name = "apply", !.row = row_idx, !.col = 0,
                              !.end = end_col, !.style = GREEN,
                              !.excl = {AMBER, PINK}, !.force = FALSE]

\* Calls on any row of a sheet whose calendar is built and whose styles are
\* registered: a holiday written, a row coloured from column 0.
FrameCols == 0..(MaxWidth - 2)
LocateAnyCell ==
    \E row_idx \in 0..Len(table), col_idx \in FrameCols, auto_extend \in BOOLEAN :
        LET r == get_cell_node(table, row_idx, col_idx, auto_extend) IN
        /\ table' = r.table
        /\ prev' = table
        /\ op' = [NoOp EXCEPT !.name = "locate", !.row = row_idx,
                              !.col = col_idx, !.found = r.found]
WriteAnyHoliday ==
    \E row_idx \in 0..(Len(table) - 1), col_idx \in FrameCols :
        /\ table' = update_cell_text(table, row_idx, col_idx, "h1", AMBER)
        /\ prev' = table
        /\ op' = [NoOp EXCEPT !.name = "text", !.row = row_idx, !.col = col_idx,
                              !.text = "h1", !.style = AMBER]
ColourAnyRow ==
    \E row_idx \in 0..(Len(table) - 1), end_col \in FrameCols :
        /\ table' = apply_row_style(table, row_idx, 0, end_col, GREEN,
                                    {AMBER, PINK}, FALSE)
        /\ prev' = table
        /\ op' = [NoOp EXCEPT !.name = "apply", !.row = row_idx, !.col = 0,
                              !.end = end_col, !.style = GREEN,
                              !.excl = {AMBER, PINK}, !.force = FALSE]

\* The sheet after generate_calendar_headers(start_date, 1) and
\* ensure_styles() on a template of a header row and a country row.
FrameInit ==
    /\ ParserIdle
    /\ FilesIdle
    /\ FetchIdle
    /\ MainIdle
    /\ auto_styles = ensure_styles(NoRegistry)
    /\ prevStyles = auto_styles
    /\ \E h \in { k \in HeaderRows : WidthOf(k) <= 1 }, c \in CountryRows,
          start_date \in StartDates :
           LET r == generate_calendar_headers(<<h, c>>, <<>>, start_date, 1)
           IN  /\ table = r.table
               /\ prev = r.table
               /\ op = NoOp
               /\ date_map = r.date_map

\* A calendar appended to the header, of fewer days than MaxDays so that
\* several fit.
BuildHeaderAgain == BuildHeaderIn(StartDates, 1..(MaxDays - 1))

\* load() of a template of a header row, empty or of one title cell, and a
\* country row of blank cells.
GridInit ==
    /\ ParserIdle
    /\ StylesIdle
    /\ FilesIdle
    /\ FetchIdle
    /\ MainIdle
    /\ table \in { <<h, <<NewCell(2)>> >> :
                      h \in { <<>>, <<Run([p |-> <<"Country">>, style |-> GREY,
                                           vtype |-> "string"], 1)>> } }
    /\ prev = table
    /\ op = NoOp
    /\ date_map = <<>>

\* The automatic-styles a template brings: none, an empty one, one with a
\* cell style of its own, one that already defines the Amber name.
LoadedRegistries ==
    { NoRegistry,
      [present |-> TRUE, styles |-> <<>>],
      [present |-> TRUE, styles |-> <<NewStyle("ce1", "#ffffff", None)>>],
      [present |-> TRUE, styles |-> <<NewStyle(AMBER, "#ff0000", None)>>] }

\* load() of a template, no call made yet.
RegistryInit ==
    /\ ParserIdle
    /\ SheetIdle
    /\ FilesIdle
    /\ FetchIdle
    /\ MainIdle
    /\ auto_styles \in LoadedRegistries
    /\ prevStyles = auto_styles

\* ensureStyle: _create_style(name, bg_color, font_size) by a caller.
EnsureStyle ==
    \E name \in {AMBER, PINK, GREEN}, bg_color \in {"#ffbf00", "#ccffcc"} :
        LET r == create_style(auto_styles, name, bg_color, "6pt") IN
        /\ auto_styles' = r.reg
        /\ prevStyles' = auto_styles
        /\ op' = [NoOp EXCEPT !.name = "style", !.style = name, !.ret = r.ret]
        /\ UNCHANGED <<table, prev>>

\* ensure_styles() of the orchestrating run.
EnsureStyles ==
    /\ auto_styles' = ensure_styles(auto_styles)
    /\ prevStyles' = auto_styles
    /\ op' = [NoOp EXCEPT !.name = "styles"]
    /\ UNCHANGED <<table, prev>>

\* A member that save() copies as it is: its bytes are one opaque tag.
Raw(name, bytes) == [name |-> name, data |-> <<Tag("raw", bytes, None, None, 1)>>]

\* The archive of a template whose content.xml holds the tree (reg, tbl).
ArchiveOf(reg, tbl) ==
    [exists |-> TRUE, complete |-> TRUE,
     members |-> << Raw("mimetype", "application/vnd.oasis.opendocument.spreadsheet"),
                    [name |-> "content.xml", data |-> tostring(reg, tbl)],
                    Raw("styles.xml", "<office:document-styles/>") >>]

\* The tables of the templates saved: one row of at most one run.
SavedTables == { <<r>> : r \in { h \in RowsOver(TextContents) : Len(h) <= 1 } }

\* load() of an archive on disk.
SaveInit ==
    /\ ParserIdle
    /\ FetchIdle
    /\ MainIdle
    /\ table \in SavedTables
    /\ prev = table
    /\ op = NoOp
    /\ date_map = <<>>
    /\ auto_styles \in LoadedRegistries
    /\ prevStyles = auto_styles
    /\ temp = NoFile
    /\ pc = "idle"
    /\ dest = ArchiveOf(auto_styles, table)
    /\ original = dest

\* A holiday written to the loaded tree before it is saved.
WriteBeforeSave ==
    /\ pc = "idle"
    /\ UpdateCellTextIn({0}, { <<"h1", AMBER>> })
    /\ UNCHANGED styleVars

\* ensure_styles() before the tree is saved.
StylesBeforeSave ==
    /\ pc = "idle"
    /\ EnsureStyles

\* save(): zin is opened on the destination and zout created at the
\* temporary path.
SaveBegin ==
    /\ pc = "idle"
    /\ dest.exists /\ dest.complete
    /\ temp' = [exists |-> TRUE, members |-> <<>>, complete |-> FALSE]
    /\ pc' = "writing"
    /\ UNCHANGED <<dest, original>>

\* save(): one turn of the loop over zin.infolist().
SaveWrite ==
    /\ pc = "writing"
    /\ Len(temp.members) < Len(dest.members)
    /\ temp' = [temp EXCEPT !.members =
                    Append(@, SavedMember(dest, dest.members[Len(temp.members) + 1],
                                          auto_styles, table))]
    /\ UNCHANGED <<dest, pc, original>>

\* save(): the loop is over and the with blocks close both archives.
SaveClose ==
    /\ pc = "writing"
    /\ Len(temp.members) = Len(dest.members)
    /\ temp' = [temp EXCEPT !.complete = TRUE]
    /\ pc' = "move"
    /\ UNCHANGED <<dest, original>>

\* shutil.move: os.rename succeeds and replaces the destination.
MoveRename ==
    /\ pc = "move"
    /\ dest' = temp
    /\ temp' = NoFile
    /\ pc' = "done"
    /\ UNCHANGED original

\* shutil.move: os.rename raises OSError (the destination exists, on Windows),
\* and the copy function opens the destination for writing.
MoveRenameRefused ==
    /\ pc = "move"
    /\ dest' = [exists |-> TRUE, members |-> <<>>, complete |-> FALSE]
    /\ pc' = "copy"
    /\ UNCHANGED <<temp, original>>

\* shutil.move: the copy function has written the whole destination.
MoveCopy ==
    /\ pc = "copy"
    /\ dest' = temp
    /\ pc' = "unlink"
    /\ UNCHANGED <<temp, original>>

\* shutil.move: os.unlink of the temporary file.
MoveUnlink ==
    /\ pc = "unlink"
    /\ temp' = NoFile
    /\ pc' = "done"
    /\ UNCHANGED <<dest, original>>

\* save(): the step under way raises (disk full, permission, interrupt); no
\* handler is in save() or around its call.
SaveFails ==
    /\ pc \in {"writing", "move", "copy", "unlink"}
    /\ pc' = "failed"
    /\ UNCHANGED <<dest, temp, original>>

\* The base URLs of the country rows: plain, with a trailing slash, and with
\* the year of an earlier run.
BaseUrls ==
    { <<"countries", "france">>,
      <<"countries", "france", "">>,
      <<"countries", "france", "2025">> }

RECURSIVE YearLists(_)
\* The lists of at most n years out of 2026 and 2027.
YearLists(n) ==
    IF n = 0 THEN { <<>> }
    ELSE YearLists(n - 1) \cup
         { Append(ys, y) : ys \in { l \in YearLists(n - 1) : Len(l) = n - 1 },
                           y \in {2026, 2027} }

\* The lists of records a page parses into.
Pages ==
    { <<>>,
      <<[date |-> <<2026, 1, 1>>, name |-> "New Year", is_national |-> TRUE]>>,
      <<[date |-> <<2026, 3, 20>>, name |-> "Fair", is_national |-> FALSE],
        [date |-> <<2027, 1, 1>>, name |-> "New Year", is_national |-> TRUE]>> }

\* fetch_holidays(base_url, years) is called.
FetchInit ==
    /\ ParserIdle
    /\ SheetIdle
    /\ StylesIdle
    /\ FilesIdle
    /\ MainIdle
    /\ fetch \in { NewFetch(b, ys) : b \in BaseUrls, ys \in YearLists(MaxYears) }

\* The loop is at a year it has not returned from yet.
InLoop == ~fetch.returned /\ fetch.i <= Len(fetch.years)
YearNow == fetch.years[fetch.i]
UrlNow == UrlOf(fetch.base_url, YearNow)

\* `if url in seen_urls: continue`
FetchSeen ==
    /\ InLoop
    /\ UrlNow \in fetch.seen_urls
    /\ fetch' = AfterSeen(fetch)

\* The request succeeds and the page parses.
FetchSuccess ==
    /\ InLoop
    /\ UrlNow \notin fetch.seen_urls
    /\ \E holidays \in Pages : fetch' = AfterSuccess(fetch, UrlNow, holidays)

\* urlopen raises HTTPError: 404, or another status.
FetchHTTPError ==
    /\ InLoop
    /\ UrlNow \notin fetch.seen_urls
    /\ \E code \in {404, 500} :
           fetch' = AfterFailure(fetch, UrlNow,
                                 IF code = 404 THEN "http404" ELSE "http500",
                                 HTTPErrorPrints(code, YearNow))

\* The request times out, or decode or feed raises.
FetchException ==
    /\ InLoop
    /\ UrlNow \notin fetch.seen_urls
    /\ \E kind \in {"timeout", "decode", "parse"} :
           fetch' = AfterFailure(fetch, UrlNow, kind, "error")

\* `return all_holidays`
FetchReturn ==
    /\ ~fetch.returned
    /\ fetch.i > Len(fetch.years)
    /\ fetch' = [fetch EXCEPT !.returned = TRUE]

\* The records fetch_holidays returns for a country: days before, in and after
\* the calendars of StartDates, national and regional.
HolidayRecords ==
    { [date |-> <<2025, 12, 30>>, name |-> "Eve", is_national |-> TRUE],
      [date |-> <<2026, 1, 1>>, name |-> "New Year", is_national |-> TRUE],
      [date |-> <<2026, 1, 1>>, name |-> "Town Day", is_national |-> FALSE],
      [date |-> <<2026, 1, 2>>, name |-> "Fair", is_national |-> FALSE],
      [date |-> <<2026, 1, 6>>, name |-> "Epiphany", is_national |-> TRUE] }

RECURSIVE HolidayLists(_)
\* The lists of at most n records.
HolidayLists(n) ==
    IF n = 0 THEN { <<>> }
    ELSE HolidayLists(n - 1) \cup
         { Append(hs, h) : hs \in { l \in HolidayLists(n - 1) : Len(l) = n - 1 },
                           h \in HolidayRecords }

\* The run after generate_calendar_headers(start_date, duration) on a loaded
\* template of a header row and a country row, at the holiday loop of that
\* country.
PopulateInit ==
    /\ ParserIdle
    /\ StylesIdle
    /\ FilesIdle
    /\ FetchIdle
    /\ \E h \in HeaderRows, c \in CountryRows, start_date \in StartDates,
          duration \in 1..MaxDays, holidays \in HolidayLists(MaxRecords) :
           LET r == generate_calendar_headers(<<h, c>>, <<>>, start_date, duration)
           IN  /\ table = r.table
               /\ prev = r.table
               /\ op = NoOp
               /\ date_map = r.date_map
               /\ main = NewMain(start_date, duration, 1, holidays)

\* The record the loop is at.
HolidayNow == main.holidays[main.i]
InHolidayLoop == main.pc = "loop" /\ main.i <= Len(main.holidays)

\* `if start_date <= h_date <= end_date_inclusive` and
\* `if normalized in ods.date_map` both hold.
Mapped(h_date) == InWindow(main, h_date) /\ Normalized(h_date) \in DOMAIN date_map

\* The loop body on a record that is mapped: update_cell_text(row_idx, col,
\* h_name, style); count += 1.
HolidayWrite ==
    /\ InHolidayLoop
    /\ Mapped(HolidayNow.date)
    /\ LET col == date_map[Normalized(HolidayNow.date)]
           style == HolidayStyle(HolidayNow.is_national)
       IN  /\ table' = update_cell_text(table, main.row_idx, col,
                                        HolidayNow.name, style)
           /\ op' = [NoOp EXCEPT !.name = "holiday", !.row = main.row_idx,
                                 !.col = col, !.text = HolidayNow.name,
                                 !.style = style, !.date = HolidayNow.date,
                                 !.found = TRUE]
    /\ prev' = table
    /\ main' = WrittenHoliday(main)

\* The loop body on a record that is not mapped.
HolidaySkip ==
    /\ InHolidayLoop
    /\ ~Mapped(HolidayNow.date)
    /\ table' = table
    /\ prev' = table
    /\ op' = [NoOp EXCEPT !.name = "holiday", !.row = main.row_idx,
                          !.date = HolidayNow.date, !.found = FALSE]
    /\ main' = SkippedHoliday(main)

\* The loop is over: the count is printed.
PrintAdded ==
    /\ main.pc = "loop"
    /\ main.i > Len(main.holidays)
    /\ main' = AddedLine(main)
    /\ UNCHANGED sheetVars

\* The status runs of a country row: the status text on one column or, equal
\* to the flag column next to it, on a run of two; or a blank cell.
StatusRuns ==
    { Run([p |-> <<t>>, style |-> None, vtype |-> "string"], k) :
          t \in {"no", "No ", "yes", " YES"}, k \in 1..2 }
    \cup { Run([p |-> <<"no">>, style |-> AMBER, vtype |-> "string"], 1),
           Run([p |-> <<>>, style |-> None, vtype |-> None], 1) }

\* The cell of column COUNTRY_COL: a link to a page of the publisher, a link
\* elsewhere, a plain name.
NameCells ==
    { Run([p |-> <<t>>, style |-> None, vtype |-> "string"], 1) :
          t \in {SourceLink, OtherLink, "France"} }

\* What a template row holds in the calendar columns: nothing yet, a cell a
\* former run left Amber, a run of two it left Pink with a text.
FormerCells ==
    { <<>>,
      <<Run([p |-> <<>>, style |-> AMBER, vtype |-> None], 1)>>,
      <<Run([p |-> <<"Old">>, style |-> PINK, vtype |-> "string"], 2)>> }

\* The country rows of a template: status, blank cells up to COUNTRY_COL, the
\* name cell, the calendar columns.
TemplateRows ==
    { <<st, Run([p |-> <<>>, style |-> None, vtype |-> None], COUNTRY_COL - st.rep), nm>>
          \o former : st \in StatusRuns, nm \in NameCells, former \in FormerCells }

\* The header row of a template: a title on each column up to COUNTRY_COL.
TemplateHeader ==
    <<Run([p |-> <<"Country">>, style |-> None, vtype |-> "string"], COUNTRY_COL + 1)>>

\* The run after generate_calendar_headers(start_date, duration) and
\* ensure_styles(), as its country loop reaches the country row.
CountryInit ==
    /\ ParserIdle
    /\ FilesIdle
    /\ FetchIdle
    /\ auto_styles = ensure_styles(NoRegistry)
    /\ prevStyles = auto_styles
    /\ \E c \in TemplateRows, start_date \in StartDates, duration \in 1..MaxDays :
           LET r == generate_calendar_headers(<<TemplateHeader, c>>, <<>>,
                                              start_date, duration)
           IN  /\ table = r.table
               /\ prev = r.table
               /\ op = NoOp
               /\ date_map = r.date_map
               /\ main = AtCountry(start_date, duration, 1, c)

\* Lines 506-522: the status is read from get_cell_node(row_idx, 0), the row
\* is coloured for it, and a "No" row is left at that (`continue`).
CountryColour ==
    /\ main.pc = "country"
    /\ LET c_a == get_cell_node(table, main.row_idx, 0, TRUE)
           status == IF c_a.found THEN StatusOf(c_a.table[main.row_idx + 1][c_a.idx])
                     ELSE "Blank"
       IN  /\ table' = Coloured(c_a.table, main.row_idx,
                                EndColIdx(date_map, main.duration), status)
           /\ op' = [NoOp EXCEPT !.name = "colour", !.row = main.row_idx,
                                 !.text = status,
                                 !.end = EndColIdx(date_map, main.duration)]
           /\ main' = [main EXCEPT !.pc = IF status = "No" THEN "done" ELSE "url",
                                    !.status = status]
    /\ prev' = table
    /\ UNCHANGED fetch

\* Lines 525-538: the link is read from get_cell_node(row_idx, 3); with a
\* page of the publisher in it, fetch_holidays is called and returns records.
CountryFetch ==
    /\ main.pc = "url"
    /\ LET c_d == get_cell_node(table, main.row_idx, COUNTRY_COL, TRUE)
           url_text == UrlText(c_d, main.row_idx)
       IN  /\ table' = c_d.table
           /\ op' = [NoOp EXCEPT !.name = "source", !.row = main.row_idx,
                                 !.col = COUNTRY_COL, !.text = url_text,
                                 !.found = HasSource(url_text)]
           /\ IF HasSource(url_text)
              THEN \E holidays \in HolidayLists(MaxRecords) :
                     /\ fetch' = [NewFetch(SegmentsOf(url_text), YearsToScrape(main))
                                    EXCEPT !.i = Len(YearsToScrape(main)) + 1,
                                           !.all_holidays = holidays,
                                           !.returned = TRUE]
                     /\ main' = [main EXCEPT
                                   !.pc = "loop", !.holidays = holidays,
                                   !.printed = Append(@, Line("scraping", <<>>, 0))]
              ELSE /\ fetch' = fetch
                   /\ main' = [main EXCEPT !.pc = "done"]
    /\ prev' = table

\* The run before line 489: the template is copied to the output file, which
\* is not loaded yet; `loaded` is the country row of the template.
RunInit ==
    /\ ParserIdle
    /\ FetchIdle
    /\ \E c \in TemplateRows, start_date \in StartDates, duration \in 1..MaxDays :
           /\ table = <<TemplateHeader, c>>
           /\ main = [AtCountry(start_date, duration, 1, c) EXCEPT !.pc = "start"]
    /\ prev = table
    /\ op = NoOp
    /\ date_map = <<>>
    /\ auto_styles = NoRegistry
    /\ prevStyles = auto_styles
    /\ temp = NoFile
    /\ pc = "idle"
    /\ dest = ArchiveOf(auto_styles, table)
    /\ original = dest

\* Lines 489-491: ODSHandler(output_filename), then
\* generate_calendar_headers(start_date, duration) and ensure_styles().
RunHeaders ==
    /\ main.pc = "start"
    /\ LET r == generate_calendar_headers(table, date_map, main.start_date,
                                          main.duration)
       IN  /\ table' = r.table
           /\ date_map' = r.date_map
    /\ prev' = table
    /\ op' = [NoOp EXCEPT !.name = "header", !.date = main.start_date,
                          !.days = main.duration, !.dm = date_map]
    /\ auto_styles' = ensure_styles(auto_styles)
    /\ prevStyles' = auto_styles
    /\ main' = [main EXCEPT !.pc = "country"]
    /\ UNCHANGED fetch

\* Line 553: ods.save() once the country loop is over.
RunSaveBegin == main.pc = "done" /\ SaveBegin

\* ------------------------------------------------------------ parser state

\* fetch_holidays: a new parser for each page, the sheet not loaded.
ParserInit ==
    /\ SheetIdle
    /\ StylesIdle
    /\ FilesIdle
    /\ FetchIdle
    /\ MainIdle
    /\ parser = NewParser
    /\ last = NoEmit
    /\ rowInfo = NoRow
    /\ ref = NewParser
    /\ dropped = "none"

\* The start tags of a page: (tag, class words, datetime attribute).
StartTags ==
    { [tag |-> "table", class |-> {"country-table"}, datetime |-> NoDate],
      [tag |-> "table", class |-> {}, datetime |-> NoDate],
      [tag |-> "tr", class |-> {}, datetime |-> NoDate],
      [tag |-> "td", class |-> {}, datetime |-> NoDate],
      [tag |-> "a", class |-> {"country-listing"}, datetime |-> NoDate],
      [tag |-> "a", class |-> {}, datetime |-> NoDate],
      [tag |-> "time", class |-> {}, datetime |-> NoDate],
      [tag |-> "time", class |-> {}, datetime |-> <<2026, 3, 20>>],
      [tag |-> "time", class |-> {}, datetime |-> <<2026, 2, 30>>] }

EndTags == {"table", "tr", "td", "a"}

\* The text nodes of a page: layout whitespace, "Bank ", " Local", "REgional".
DataChunks ==
    { <<"\t", " ", " ", " ">>,
      <<"B", "a", "n", "k", " ">>,
      <<" ", "L", "o", "c", "a", "l">>,
      <<"R", "E", "g", "i", "o", "n", "a", "l">> }

\* The row ghost after a start tag (q is the parser before it).
RowAfterStart(q, st) ==
    LET entered == st.tag = "tr" /\ q.in_table
        r1 == IF entered
              THEN [NoRow EXCEPT !.leak = q.recording_type]
              ELSE rowInfo
        inrow == q.in_row \/ entered
        idx == IF entered THEN 0 ELSE q.current_cell_idx
    IN  IF inrow /\ st.tag = "td" /\ idx + 1 = TypeColumn
        THEN [r1 EXCEPT !.c4open = TRUE, !.c4text = <<>>]
        ELSE IF inrow /\ st.tag = "a" /\ "country-listing" \in st.class
        THEN [r1 EXCEPT !.anchor = TRUE, !.heard = <<>>]
        ELSE r1

\* feed(): the tokenizer reports the start tag st.
FeedStart(st) ==
        /\ Len(parser.holidays) < MaxHolidays
        /\ (st.tag = "td" /\ parser.in_row) => parser.current_cell_idx < MaxCells
        /\ parser' = handle_starttag(parser, st.tag, st.class, st.datetime)
        /\ last' = IF st.tag = "time"
                   THEN [NoEmit EXCEPT !.event = "time",
                                       !.recName = parser.recording_name,
                                       !.recType = parser.recording_type]
                   ELSE NoEmit
        /\ rowInfo' = RowAfterStart(parser, st)

StartTag == \E st \in StartTags : FeedStart(st)

\* feed(): the tokenizer reports the end tag.
FeedEnd(tag) ==
        LET q == handle_endtag(parser, tag) IN
        /\ Len(parser.holidays) < MaxHolidays
        /\ parser' = q
        /\ last' = IF Len(q.holidays) > Len(parser.holidays)
                   THEN [NoEmit EXCEPT !.emitted = TRUE,
                                       !.wasInTable = parser.in_table,
                                       !.wasInRow = parser.in_row]
                   ELSE NoEmit
        /\ rowInfo' = IF tag \in {"td", "tr"} THEN [rowInfo EXCEPT !.c4open = FALSE] ELSE rowInfo

EndTag == \E tag \in EndTags : FeedEnd(tag)

\* feed(): the tokenizer reports text.
FeedData(data) ==
        /\ Len(parser.holidays) < MaxHolidays
        /\ parser.recording_name =>
               Len(parser.current_name_text) + Len(data) <= MaxText
        /\ parser.recording_type =>
               Len(parser.current_type_text) + Len(data) <= MaxText
        /\ parser' = handle_data(parser, data)
        /\ last' = [NoEmit EXCEPT
                      !.event = "data",
                      !.recName = parser.recording_name,
                      !.recType = parser.recording_type,
                      !.nameGrew = parser'.current_name_text # parser.current_name_text,
                      !.typeGrew = parser'.current_type_text # parser.current_type_text]
        /\ rowInfo' = [rowInfo EXCEPT
                         !.c4text = IF rowInfo.c4open THEN @ \o data ELSE @,
                         !.heard = IF parser.recording_name THEN @ \o data ELSE @]

Data == \E data \in DataChunks : FeedData(data)

\* The start tag of a row.
RowTag == [tag |-> "tr", class |-> {}, datetime |-> NoDate]

\* The start tags and text nodes of the two pages parsed side by side.
PairTags == {st \in StartTags : st.tag \in {"table", "a"} => st.class # {}}
PairChunks == {data \in DataChunks : Len(data) = 5}

\* Two pages are parsed side by side: the second is the first without one of
\* its rows, a row that carries no valid date. Outside that row both parsers
\* get every event; inside it only the first does.
PairStartTag ==
    \E st \in PairTags :
        /\ dropped = "open" =>
               (st.tag \notin {"table", "tr"} /\ ~StrptimeOk(st.datetime))
        /\ Len(ref.holidays) < MaxHolidays
        /\ FeedStart(st)
        /\ ref' = IF dropped = "open" THEN ref
                  ELSE handle_starttag(ref, st.tag, st.class, st.datetime)
        /\ UNCHANGED dropped

PairEndTag ==
    \E tag \in EndTags :
        /\ dropped = "open" => tag \in {"td", "a"}
        /\ Len(ref.holidays) < MaxHolidays
        /\ FeedEnd(tag)
        /\ ref' = IF dropped = "open" THEN ref ELSE handle_endtag(ref, tag)
        /\ UNCHANGED dropped

PairData ==
    \E data \in PairChunks :
        /\ Len(ref.holidays) < MaxHolidays
        /\ dropped # "open" =>
             /\ ref.recording_name =>
                    Len(ref.current_name_text) + Len(data) <= MaxText
             /\ ref.recording_type =>
                    Len(ref.current_type_text) + Len(data) <= MaxText
        /\ FeedData(data)
        /\ ref' = IF dropped = "open" THEN ref ELSE handle_data(ref, data)
        /\ UNCHANGED dropped

\* The dateless row opens, between two rows of the target table.
DropRowOpen ==
    /\ dropped = "none"
    /\ parser.in_table
    /\ ~parser.in_row
    /\ FeedStart(RowTag)
    /\ UNCHANGED ref
    /\ dropped' = "open"

\* The dateless row closes, its cells and anchors closed before it.
DropRowClose ==
    /\ dropped = "open"
    /\ ~parser.recording_name
    /\ ~parser.recording_type
    /\ FeedEnd("tr")
    /\ UNCHANGED ref
    /\ dropped' = "done"

SheetNext ==
    \/ LocateCell /\ UNCHANGED parserVars /\ UNCHANGED pairVars /\ UNCHANGED calVars /\ UNCHANGED styleVars /\ UNCHANGED fileVars /\ UNCHANGED fetchVars /\ UNCHANGED mainVars
    \/ SetCellText /\ UNCHANGED parserVars /\ UNCHANGED pairVars /\ UNCHANGED calVars /\ UNCHANGED styleVars /\ UNCHANGED fileVars /\ UNCHANGED fetchVars /\ UNCHANGED mainVars

StyleNext ==
    \/ LocateCell /\ UNCHANGED parserVars /\ UNCHANGED pairVars /\ UNCHANGED calVars /\ UNCHANGED styleVars /\ UNCHANGED fileVars /\ UNCHANGED fetchVars /\ UNCHANGED mainVars
    \/ SetCellStyle /\ UNCHANGED parserVars /\ UNCHANGED pairVars /\ UNCHANGED calVars /\ UNCHANGED styleVars /\ UNCHANGED fileVars /\ UNCHANGED fetchVars /\ UNCHANGED mainVars
    \/ ApplyStyleRange /\ UNCHANGED parserVars /\ UNCHANGED pairVars /\ UNCHANGED calVars /\ UNCHANGED styleVars /\ UNCHANGED fileVars /\ UNCHANGED fetchVars /\ UNCHANGED mainVars

CalendarNext ==
    \/ BuildHeader /\ UNCHANGED parserVars /\ UNCHANGED pairVars /\ UNCHANGED styleVars /\ UNCHANGED fileVars /\ UNCHANGED fetchVars /\ UNCHANGED mainVars
    \/ LocateCountryCell /\ UNCHANGED parserVars /\ UNCHANGED pairVars /\ UNCHANGED calVars /\ UNCHANGED styleVars /\ UNCHANGED fileVars /\ UNCHANGED fetchVars /\ UNCHANGED mainVars

RunsNext ==
    \/ LocateCell /\ UNCHANGED parserVars /\ UNCHANGED pairVars /\ UNCHANGED calVars /\ UNCHANGED styleVars /\ UNCHANGED fileVars /\ UNCHANGED fetchVars /\ UNCHANGED mainVars
    \/ WriteHoliday /\ UNCHANGED parserVars /\ UNCHANGED pairVars /\ UNCHANGED calVars /\ UNCHANGED styleVars /\ UNCHANGED fileVars /\ UNCHANGED fetchVars /\ UNCHANGED mainVars
    \/ ColourRow /\ UNCHANGED parserVars /\ UNCHANGED pairVars /\ UNCHANGED calVars /\ UNCHANGED styleVars /\ UNCHANGED fileVars /\ UNCHANGED fetchVars /\ UNCHANGED mainVars
    \/ BuildHeaderOnce /\ UNCHANGED parserVars /\ UNCHANGED pairVars /\ UNCHANGED styleVars /\ UNCHANGED fileVars /\ UNCHANGED fetchVars /\ UNCHANGED mainVars

FrameNext ==
    \/ LocateAnyCell /\ UNCHANGED parserVars /\ UNCHANGED pairVars /\ UNCHANGED calVars /\ UNCHANGED styleVars /\ UNCHANGED fileVars /\ UNCHANGED fetchVars /\ UNCHANGED mainVars
    \/ WriteAnyHoliday /\ UNCHANGED parserVars /\ UNCHANGED pairVars /\ UNCHANGED calVars /\ UNCHANGED styleVars /\ UNCHANGED fileVars /\ UNCHANGED fetchVars /\ UNCHANGED mainVars
    \/ ColourAnyRow /\ UNCHANGED parserVars /\ UNCHANGED pairVars /\ UNCHANGED calVars /\ UNCHANGED styleVars /\ UNCHANGED fileVars /\ UNCHANGED fetchVars /\ UNCHANGED mainVars

GridNext ==
    \/ BuildHeaderAgain /\ UNCHANGED parserVars /\ UNCHANGED pairVars /\ UNCHANGED styleVars /\ UNCHANGED fileVars /\ UNCHANGED fetchVars /\ UNCHANGED mainVars
    \/ LocateCountryCell /\ UNCHANGED parserVars /\ UNCHANGED pairVars /\ UNCHANGED calVars /\ UNCHANGED styleVars /\ UNCHANGED fileVars /\ UNCHANGED fetchVars /\ UNCHANGED mainVars
    \/ WriteCountryHoliday /\ UNCHANGED parserVars /\ UNCHANGED pairVars /\ UNCHANGED calVars /\ UNCHANGED styleVars /\ UNCHANGED fileVars /\ UNCHANGED fetchVars /\ UNCHANGED mainVars
    \/ ColourCountryRow /\ UNCHANGED parserVars /\ UNCHANGED pairVars /\ UNCHANGED calVars /\ UNCHANGED styleVars /\ UNCHANGED fileVars /\ UNCHANGED fetchVars /\ UNCHANGED mainVars

RegistryNext ==
    \/ EnsureStyle /\ UNCHANGED parserVars /\ UNCHANGED pairVars /\ UNCHANGED calVars /\ UNCHANGED fileVars /\ UNCHANGED fetchVars /\ UNCHANGED mainVars
    \/ EnsureStyles /\ UNCHANGED parserVars /\ UNCHANGED pairVars /\ UNCHANGED calVars /\ UNCHANGED fileVars /\ UNCHANGED fetchVars /\ UNCHANGED mainVars

SaveNext ==
    \/ WriteBeforeSave /\ UNCHANGED parserVars /\ UNCHANGED pairVars /\ UNCHANGED calVars /\ UNCHANGED fileVars /\ UNCHANGED fetchVars /\ UNCHANGED mainVars
    \/ StylesBeforeSave /\ UNCHANGED parserVars /\ UNCHANGED pairVars /\ UNCHANGED calVars /\ UNCHANGED fileVars /\ UNCHANGED fetchVars /\ UNCHANGED mainVars
    \/ SaveBegin /\ UNCHANGED sheetVars /\ UNCHANGED parserVars /\ UNCHANGED pairVars /\ UNCHANGED calVars /\ UNCHANGED styleVars /\ UNCHANGED fetchVars /\ UNCHANGED mainVars
    \/ SaveWrite /\ UNCHANGED sheetVars /\ UNCHANGED parserVars /\ UNCHANGED pairVars /\ UNCHANGED calVars /\ UNCHANGED styleVars /\ UNCHANGED fetchVars /\ UNCHANGED mainVars
    \/ SaveClose /\ UNCHANGED sheetVars /\ UNCHANGED parserVars /\ UNCHANGED pairVars /\ UNCHANGED calVars /\ UNCHANGED styleVars /\ UNCHANGED fetchVars /\ UNCHANGED mainVars
    \/ MoveRename /\ UNCHANGED sheetVars /\ UNCHANGED parserVars /\ UNCHANGED pairVars /\ UNCHANGED calVars /\ UNCHANGED styleVars /\ UNCHANGED fetchVars /\ UNCHANGED mainVars
    \/ MoveRenameRefused /\ UNCHANGED sheetVars /\ UNCHANGED parserVars /\ UNCHANGED pairVars /\ UNCHANGED calVars /\ UNCHANGED styleVars /\ UNCHANGED fetchVars /\ UNCHANGED mainVars
    \/ MoveCopy /\ UNCHANGED sheetVars /\ UNCHANGED parserVars /\ UNCHANGED pairVars /\ UNCHANGED calVars /\ UNCHANGED styleVars /\ UNCHANGED fetchVars /\ UNCHANGED mainVars
    \/ MoveUnlink /\ UNCHANGED sheetVars /\ UNCHANGED parserVars /\ UNCHANGED pairVars /\ UNCHANGED calVars /\ UNCHANGED styleVars /\ UNCHANGED fetchVars /\ UNCHANGED mainVars
    \/ SaveFails /\ UNCHANGED sheetVars /\ UNCHANGED parserVars /\ UNCHANGED pairVars /\ UNCHANGED calVars /\ UNCHANGED styleVars /\ UNCHANGED fetchVars /\ UNCHANGED mainVars

FetchRest == UNCHANGED <<sheetVars, parserVars, pairVars, calVars, styleVars, fileVars, mainVars>>

FetchNext ==
    \/ FetchSeen /\ FetchRest
    \/ FetchSuccess /\ FetchRest
    \/ FetchHTTPError /\ FetchRest
    \/ FetchException /\ FetchRest
    \/ FetchReturn /\ FetchRest

PopulateRest == UNCHANGED <<parserVars, pairVars, calVars, styleVars, fileVars, fetchVars>>

PopulateNext ==
    \/ HolidayWrite /\ PopulateRest
    \/ HolidaySkip /\ PopulateRest
    \/ PrintAdded /\ PopulateRest

CountryRest == UNCHANGED <<parserVars, pairVars, calVars, styleVars, fileVars>>

CountryNext ==
    \/ CountryColour /\ CountryRest
    \/ CountryFetch /\ CountryRest
    \/ HolidayWrite /\ UNCHANGED fetch /\ CountryRest
    \/ HolidaySkip /\ UNCHANGED fetch /\ CountryRest
    \/ PrintAdded /\ UNCHANGED fetch /\ CountryRest

RunLoop == UNCHANGED <<parserVars, pairVars, calVars, styleVars, fileVars>>
RunSave == UNCHANGED <<sheetVars, parserVars, pairVars, calVars, styleVars, fetchVars, mainVars>>

RunNext ==
    \/ RunHeaders /\ UNCHANGED <<parserVars, pairVars, fileVars>>
    \/ CountryColour /\ RunLoop
    \/ CountryFetch /\ RunLoop
    \/ HolidayWrite /\ UNCHANGED fetch /\ RunLoop
    \/ HolidaySkip /\ UNCHANGED fetch /\ RunLoop
    \/ PrintAdded /\ UNCHANGED fetch /\ RunLoop
    \/ RunSaveBegin /\ RunSave
    \/ SaveWrite /\ RunSave
    \/ SaveClose /\ RunSave
    \/ MoveRename /\ RunSave
    \/ MoveRenameRefused /\ RunSave
    \/ MoveCopy /\ RunSave
    \/ MoveUnlink /\ RunSave
    \/ SaveFails /\ RunSave

ParserNext ==
    \/ StartTag /\ UNCHANGED sheetVars /\ UNCHANGED pairVars /\ UNCHANGED calVars /\ UNCHANGED styleVars /\ UNCHANGED fileVars /\ UNCHANGED fetchVars /\ UNCHANGED mainVars
    \/ EndTag /\ UNCHANGED sheetVars /\ UNCHANGED pairVars /\ UNCHANGED calVars /\ UNCHANGED styleVars /\ UNCHANGED fileVars /\ UNCHANGED fetchVars /\ UNCHANGED mainVars
    \/ Data /\ UNCHANGED sheetVars /\ UNCHANGED pairVars /\ UNCHANGED calVars /\ UNCHANGED styleVars /\ UNCHANGED fileVars /\ UNCHANGED fetchVars /\ UNCHANGED mainVars

PairNext ==
    \/ PairStartTag /\ UNCHANGED sheetVars /\ UNCHANGED calVars /\ UNCHANGED styleVars /\ UNCHANGED fileVars /\ UNCHANGED fetchVars /\ UNCHANGED mainVars
    \/ PairEndTag /\ UNCHANGED sheetVars /\ UNCHANGED calVars /\ UNCHANGED styleVars /\ UNCHANGED fileVars /\ UNCHANGED fetchVars /\ UNCHANGED mainVars
    \/ PairData /\ UNCHANGED sheetVars /\ UNCHANGED calVars /\ UNCHANGED styleVars /\ UNCHANGED fileVars /\ UNCHANGED fetchVars /\ UNCHANGED mainVars
    \/ DropRowOpen /\ UNCHANGED sheetVars /\ UNCHANGED calVars /\ UNCHANGED styleVars /\ UNCHANGED fileVars /\ UNCHANGED fetchVars /\ UNCHANGED mainVars
    \/ DropRowClose /\ UNCHANGED sheetVars /\ UNCHANGED calVars /\ UNCHANGED styleVars /\ UNCHANGED fileVars /\ UNCHANGED fetchVars /\ UNCHANGED mainVars

vars == <<table, prev, op, parser, last, rowInfo, ref, dropped, date_map,
         auto_styles, prevStyles, dest, temp, pc, original,
         fetch, main>>

\* Locating and writing cells of a template row.
Spec == SheetInit /\ [][SheetNext]_vars

\* Locating, restyling and range-styling cells of a row.
SpecStyle == StyleInit /\ [][StyleNext]_vars

\* Building the calendar header, then locating, writing and styling cells.
SpecCalendar == HeaderInit /\ [][CalendarNext]_vars

\* Locating, writing and range-styling cells of the one row of a sheet, and
\* building the calendar header on it.
SpecRuns == StyleInit /\ [][RunsNext]_vars

\* Building the calendar header any number of times, and locating, writing
\* and colouring cells of the country row under it.
SpecGrid == GridInit /\ [][GridNext]_vars

\* Locating, writing and colouring cells of the header row and of the country
\* row of a sheet whose calendar is built and whose styles are registered.
SpecFrame == FrameInit /\ [][FrameNext]_vars

\* Looking up or creating styles in the registry of a loaded template.
SpecRegistry == RegistryInit /\ [][RegistryNext]_vars

\* A loaded template is changed, then saved step by step.
SpecSave == SaveInit /\ [][SaveNext]_vars

\* One call of fetch_holidays, each request ending one way or another.
SpecFetch == FetchInit /\ [][FetchNext]_vars

\* The holiday loop of the orchestrating run on one country row.
SpecPopulate == PopulateInit /\ [][PopulateNext]_vars

\* The country loop of the orchestrating run on one country row: colouring,
\* fetch, holiday loop.
SpecCountry == CountryInit /\ [][CountryNext]_vars

\* The orchestrating run on a template of one country row: header and
\* styles, the country loop, save.
SpecRun == RunInit /\ [][RunNext]_vars

\* One parser fed the markup events of a page, in any order.
SpecParser == ParserInit /\ [][ParserNext]_vars

\* Two parsers fed a page and the same page less one dateless row.
SpecPair == ParserInit /\ [][PairNext]_vars

\* ------------------------------------------------ claims: compressed rows

RECURSIVE ColStyles(_)
\* The style each logical column of a row reads, one per column.
ColStyles(row) ==
    IF row = <<>> THEN <<>>
    ELSE [k \in 1..Count(Head(row)) |-> Head(row).style] \o ColStyles(Tail(row))

RepsOf(row) == [i \in 1..Len(row) |-> row[i].rep]

\* The row the last call addressed, before and after the call.
OnRow == op.row < Len(prev)
RowBefore == prev[op.row + 1]
RowAfter == table[op.row + 1]
InWidth == OnRow /\ op.col < WidthOf(RowBefore)
\* The last call was locateCell on a column inside a run of repeat-count >= 2.
InsideRun ==
    /\ op.name = "locate"
    /\ InWidth
    /\ RowBefore[FindRun(RowBefore, op.col)].rep >= 2
\* The last call was locateCell past the row's width with autoExtend.
Extending ==
    /\ op.name = "locate"
    /\ OnRow
    /\ op.col >= WidthOf(RowBefore)
    /\ op.auto

\* C1: after locateCell(row, col) on a column inside a run of repeat-count
\* k >= 2, every logical column of the row other than col reads the same text
\* content and the same style as before the call.
C1_SplitKeepsOtherColumns ==
    InsideRun =>
        /\ WidthOf(RowAfter) = WidthOf(RowBefore)
        /\ \A c \in (0..(WidthOf(RowBefore) - 1)) \ {op.col} :
            /\ expand_row(RowAfter)[c + 1] = expand_row(RowBefore)[c + 1]
            /\ ColStyles(RowAfter)[c + 1] = ColStyles(RowBefore)[c + 1]

\* C2: locateCell on a column inside the row's current width never changes the
\* row's total logical width, whether or not it splits a run, in any state that
\* locateCell, setCellText and applyStyleRange calls lead to.
C2_LocateKeepsWidth ==
    (op.name = "locate" /\ InWidth) => WidthOf(RowAfter) = WidthOf(RowBefore)

\* A locateCell that split a run of a row that an earlier applyStyleRange had
\* styled.
C2_Witness ==
    /\ InsideRun
    /\ Len(RowAfter) > Len(RowBefore)
    /\ \E j \in 1..Len(RowBefore) : RowBefore[j].style = GREEN

\* C3: a run of repeat-count k > 1 hit at offset o is replaced, at its position,
\* by a pre-run of o (when o > 0), a target run of 1 and a post-run of k-o-1
\* (when > 0), in that order; every other run keeps its position and
\* repeat-count; the target is the cell returned. A run of 10 starting at column
\* 5, located at column 7, becomes runs of 2, 1 and 7.
C3_SplitShape ==
    /\ InsideRun =>
        LET i == FindRun(RowBefore, op.col)
            k == RowBefore[i].rep
            o == op.col - ColStart(RowBefore, i)
            pieces == (IF o > 0 THEN <<o>> ELSE <<>>) \o <<1>>
                      \o (IF k - o - 1 > 0 THEN <<k - o - 1>> ELSE <<>>)
        IN  /\ 0 <= o /\ o < k
            /\ RepsOf(RowAfter) =
                   SubSeq(RepsOf(RowBefore), 1, i - 1) \o pieces
                   \o SubSeq(RepsOf(RowBefore), i + 1, Len(RowBefore))
            /\ \A j \in 1..(i - 1) : RowAfter[j] = RowBefore[j]
            /\ \A j \in (i + 1)..Len(RowBefore) :
                   RowAfter[j + Len(pieces) - 1] = RowBefore[j]
            /\ op.found
            /\ op.idx = i + (IF o > 0 THEN 1 ELSE 0)
    /\ LET row == << NewCell(5), NewCell(10) >>
           r == get_cell_node(<<row>>, 0, 7, TRUE)
       IN  /\ RepsOf(r.table[1]) = <<5, 2, 1, 7>>
           /\ r.found /\ r.idx = 3
           /\ WidthOf(r.table[1]) = 15

\* A split that leaves a pre-run, in a row that has another run before it.
C3_Witness ==
    /\ InsideRun
    /\ op.col - ColStart(RowBefore, FindRun(RowBefore, op.col)) >= 1
    /\ FindRun(RowBefore, op.col) >= 2

\* C4: locateCell with autoExtend on col >= the row's width w appends exactly
\* col - w + 1 blank columns (no text, no style) after the existing runs, leaves
\* every pre-existing run unchanged, makes the width col + 1 and returns the
\* cell at column col.
C4_AutoExtend ==
    Extending =>
        LET w == WidthOf(RowBefore)
            n == Len(RowBefore)
        IN  /\ WidthOf(RowAfter) = op.col + 1
            /\ WidthOf(RowAfter) - w = op.col - w + 1
            /\ Len(RowAfter) > n
            /\ SubSeq(RowAfter, 1, n) = RowBefore
            /\ \A j \in (n + 1)..Len(RowAfter) :
                   /\ RowAfter[j].p = <<>>
                   /\ RowAfter[j].style = None
                   /\ RowAfter[j].vtype = None
            /\ op.found
            /\ op.idx \in 1..Len(RowAfter)
            /\ ColStart(RowAfter, op.idx) = op.col
            /\ RowAfter[op.idx].rep = 1

\* An extension by two or more columns of a row that had runs.
C4_Witness ==
    /\ Extending
    /\ RowBefore # <<>>
    /\ op.col - WidthOf(RowBefore) + 1 >= 2

\* The style column c of the addressed row read before the call (a column the
\* row did not have yet has none).
StyleBefore(c) ==
    IF c < WidthOf(RowBefore) THEN ColStyles(RowBefore)[c + 1] ELSE None

\* C10: after applyStyleRange(row, s, e, style, excludeStyles, force) without
\* force, every column in [s, e] whose style was in excludeStyles keeps it,
\* every other column in [s, e] has `style`, and every column outside [s, e]
\* keeps its style; with force every column in [s, e] has `style`.
C10_ApplyStyleRange ==
    op.name = "apply" =>
        /\ op.col <= op.end => WidthOf(RowAfter) >= op.end + 1
        /\ WidthOf(RowAfter) >= WidthOf(RowBefore)
        /\ \A c \in 0..(WidthOf(RowAfter) - 1) :
            LET after == ColStyles(RowAfter)[c + 1]
                before == StyleBefore(c)
            IN  IF op.col <= c /\ c <= op.end
                THEN IF op.force THEN after = op.style
                     ELSE IF before \in op.excl THEN after = before
                          ELSE after = op.style
                ELSE after = before

\* A forced range over a highlighted column, with a styled column outside it.
C10_Witness ==
    /\ op.name = "apply"
    /\ op.force
    /\ \E c \in op.col..op.end : StyleBefore(c) \in op.excl
    /\ \E c \in 0..(WidthOf(RowAfter) - 1) :
           /\ ~(op.col <= c /\ c <= op.end)
           /\ StyleBefore(c) = AMBER

\* An unforced range holding an excluded and a restyled column.
C10_WitnessKeep ==
    /\ op.name = "apply"
    /\ ~op.force
    /\ \E c \in op.col..op.end : StyleBefore(c) \in op.excl
    /\ \E c \in op.col..op.end : StyleBefore(c) = None

\* ------------------------------------------------------- claims: parser

\* The record the last event appended.
Newest == parser.holidays[Len(parser.holidays)]

\* A type text that marks a regional holiday: it contains "regional" or
\* "local", whatever the case of its letters.
MarksRegional(text) ==
    \/ Contains(Lower(text), <<"r", "e", "g", "i", "o", "n", "a", "l">>)
    \/ Contains(Lower(text), <<"l", "o", "c", "a", "l">>)

\* A valid calendar day.
IsCalendarDay(d) ==
    /\ Len(d) = 3
    /\ d[2] \in 1..12
    /\ d[3] >= 1
    /\ d[3] <= DaysIn(d[1], d[2])

\* C5: a row of the target table that contains no country-listing anchor emits
\* no Holiday Record when it closes, whatever the earlier rows held.
C5_NoAnchorNoRecord ==
    (last.emitted /\ last.wasInRow) => rowInfo.anchor

\* C6: a record is emitted only at the close of a row of the target table: not
\* by a row close outside the target table, and not a second time by a row
\* close that closes no open row.
C6_OnlyTargetRows ==
    last.emitted => (last.wasInTable /\ last.wasInRow)

\* C7: for every emitted record, is-national is false exactly when the trimmed
\* text accumulated in that row's 4th cell contains "regional" or "local"
\* case-insensitively, and true otherwise (fewer than four cells, empty cell).
C7_TypeOfFourthCell ==
    last.emitted =>
        (Newest.is_national <=> ~MarksRegional(Strip(rowInfo.c4text)))

\* C7 as amended: the same, for a record emitted at the close of a row that was
\* entered with no type cell still open and whose own type cell, if it has
\* one, was closed before the row closed.
C7_TypeOfClosedFourthCell ==
    (last.emitted /\ last.wasInRow /\ ~rowInfo.leak /\ ~parser.recording_type) =>
        (Newest.is_national <=> ~MarksRegional(Strip(rowInfo.c4text)))

\* A regional record from a closed 4th cell reading " Local".
C7_Witness ==
    /\ last.emitted /\ last.wasInRow /\ ~rowInfo.leak /\ ~parser.recording_type
    /\ ~Newest.is_national
    /\ Strip(rowInfo.c4text) = <<"L", "o", "c", "a", "l">>

\* A national record from a row of fewer than four cells.
C7_WitnessShortRow ==
    /\ last.emitted /\ last.wasInRow /\ ~rowInfo.leak /\ ~parser.recording_type
    /\ Newest.is_national
    /\ parser.current_cell_idx < TypeColumn

\* C8: a row of the target table without a valid date emits no record, and the
\* other rows of the page emit the records they emit when that row is absent.
C8_DatelessRowChangesNothing ==
    dropped # "none" => parser.holidays = ref.holidays

\* C9: every emitted record has a valid calendar date and a display name that
\* is non-empty after trimming.
C9_RecordsWellFormed ==
    \A i \in 1..Len(parser.holidays) :
        /\ IsCalendarDay(parser.holidays[i].date)
        /\ Strip(parser.holidays[i].name) # <<>>

\* C24: the name of the record a row of the target table with a
\* country-listing anchor emits is the trimmed concatenation of the text
\* received under name recording since the row's last such anchor opened; a
\* text received under no recording enters neither buffer; a time element
\* changes neither recording flag.
C24_NameOfAnchorText ==
    /\ (last.emitted /\ last.wasInRow /\ rowInfo.anchor) =>
           Newest.name = Strip(rowInfo.heard)
    /\ (last.event = "data" /\ ~last.recName /\ ~last.recType) =>
           (~last.nameGrew /\ ~last.typeGrew)
    /\ last.event = "time" =>
           /\ parser.recording_name = last.recName
           /\ parser.recording_type = last.recType

\* A row with an anchor emits a record whose name was trimmed, in the table
\* and in the row.
C24_Witness ==
    /\ last.emitted /\ last.wasInRow /\ last.wasInTable /\ rowInfo.anchor
    /\ Newest.name # rowInfo.heard
    /\ Newest.name = Strip(rowInfo.heard)

\* A time element entered while the name was being recorded.
C24_WitnessTime ==
    /\ last.event = "time"
    /\ last.recName
    /\ parser.temp_date # NoDate

\* A text received between two cells, under no recording, after a name was
\* recorded.
C24_WitnessData ==
    /\ last.event = "data"
    /\ ~last.recName /\ ~last.recType
    /\ parser.current_name_text # <<>>

\* ---------------------------------------------- claims: cell text, header

RECURSIVE ColTypes(_)
\* The value-type each logical column of a row reads, one per column.
ColTypes(row) ==
    IF row = <<>> THEN <<>>
    ELSE [k \in 1..Count(Head(row)) |-> Head(row).vtype] \o ColTypes(Tail(row))

\* The value-type column c of the addressed row read before the call.
TypeBefore(c) ==
    IF c < WidthOf(RowBefore) THEN ColTypes(RowBefore)[c + 1] ELSE None

\* The cell that holds column op.col of the addressed row after the call.
CellAfter == RowAfter[FindRun(RowAfter, op.col)]

\* C11: after setCellText(row, col, text, style) the cell at col is a single
\* column; with a text it holds exactly that text and value-type string; with
\* no text it holds no text and the value-type the column had; its style is
\* `style` when one is supplied and the style the column had otherwise.
C11_SetCellText ==
    op.name = "text" =>
        /\ FindRun(RowAfter, op.col) # 0
        /\ CellAfter.rep = 1
        /\ op.text # None => (CellAfter.p = <<op.text>> /\ CellAfter.vtype = "string")
        /\ op.text = None =>
               (CellAfter.p = <<>> /\ CellAfter.vtype = TypeBefore(op.col))
        /\ CellAfter.style = IF op.style # None THEN op.style
                             ELSE StyleBefore(op.col)

\* A text written, with no style, over a single-column cell that held a text
\* and a style.
C11_Witness ==
    /\ op.name = "text"
    /\ op.text = "h1"
    /\ op.style = None
    /\ InWidth
    /\ RowBefore[FindRun(RowBefore, op.col)].rep = 1
    /\ RowBefore[FindRun(RowBefore, op.col)].p = <<"yes">>
    /\ CellAfter.style = AMBER

\* lookupColumn(d): the column of day d in a Date Index Map, -1 for "not
\* present".
LookupIn(dm, d) == IF d \in DOMAIN dm THEN dm[d] ELSE -1
lookupColumn(d) == LookupIn(date_map, d)

\* The days looked up: from two days before the earliest start to two days
\* after the latest day a header can hold.
CalendarDays == { AddDays(<<2025, 12, 29>>, i) : i \in 0..(MaxDays + 5) }

\* The days the last buildHeader call appended.
BuiltDays == { AddDays(op.date, i) : i \in 0..(op.days - 1) }

\* The last call was buildHeader on a sheet that has a header row.
Built == op.name = "header" /\ prev # <<>>

\* C12: after buildHeader(start, n) on a header row of logical width w,
\* lookupColumn(start + i days) = w + i for every i in [0, n), and lookupColumn
\* is "not present" for every day outside those n consecutive days.
C12_DateMapExactlyBuilt ==
    Built =>
        /\ \A i \in 0..(op.days - 1) :
               lookupColumn(AddDays(op.date, i)) = WidthOf(prev[1]) + i
        /\ \A d \in CalendarDays \ BuiltDays : lookupColumn(d) = -1

\* C12 as amended: after buildHeader(start, n) on a header row of logical
\* width w, lookupColumn(start + i days) = w + i for every i in [0, n), and
\* every day outside those n days looks up as it did before the call: "not
\* present" when the map was empty before the call (on an empty header, 3 days
\* from 2026-01-01 map to columns 0, 1, 2 and 2025-12-31 is not present).
C12_DateMapBuilt ==
    Built =>
        /\ \A i \in 0..(op.days - 1) :
               lookupColumn(AddDays(op.date, i)) = WidthOf(prev[1]) + i
        /\ \A d \in CalendarDays \ BuiltDays :
               lookupColumn(d) = LookupIn(op.dm, d)
        /\ op.dm = <<>> => DOMAIN date_map = BuiltDays
        /\ (op.dm = <<>> /\ prev[1] = <<>> /\ op.date = <<2026, 1, 1>> /\ op.days = 3) =>
               /\ lookupColumn(<<2026, 1, 1>>) = 0
               /\ lookupColumn(<<2026, 1, 2>>) = 1
               /\ lookupColumn(<<2026, 1, 3>>) = 2
               /\ lookupColumn(<<2025, 12, 31>>) = -1

\* Three days from 2026-01-01 on an empty header, the first call.
C12_Witness ==
    /\ Built
    /\ op.dm = <<>>
    /\ prev[1] = <<>>
    /\ op.date = <<2026, 1, 1>>
    /\ op.days = 3

\* A second call, across the end of the year, on a header that has days.
C12_WitnessSecondCall ==
    /\ Built
    /\ op.dm # <<>>
    /\ op.date = <<2025, 12, 31>>
    /\ op.days >= 2

\* C13: buildHeader(start, n) leaves every cell the header row had and every
\* country row as they were, and appends exactly n cells of one column each
\* after them: the header's logical width grows by n.
C13_HeaderOnlyGrows ==
    Built =>
        /\ Len(table) = Len(prev)
        /\ \A r \in 2..Len(table) : table[r] = prev[r]
        /\ Len(table[1]) = Len(prev[1]) + op.days
        /\ SubSeq(table[1], 1, Len(prev[1])) = prev[1]
        /\ \A k \in (Len(prev[1]) + 1)..Len(table[1]) : table[1][k].rep = 1
        /\ WidthOf(table[1]) = WidthOf(prev[1]) + op.days

\* Two days or more appended to a header of two titled columns, over a
\* country row that has cells.
C13_Witness ==
    /\ Built
    /\ op.days >= 2
    /\ Len(prev[1]) >= 1
    /\ prev[1][1].rep = 2
    /\ prev[1][1].p = <<"Country">>
    /\ prev[2] # <<>>

\* ------------------------------------------------- claims: style registry

\* The number of definitions named `name` in a registry.
DefinitionsOf(reg, name) ==
    Cardinality({ k \in 1..Len(reg.styles) : reg.styles[k].name = name })

\* C14: ensureStyle with a name returns that name, and the registry then holds
\* exactly one definition of that name; when the name was defined before the
\* call, the call adds nothing and leaves every definition as it was.
C14_EnsureStyleIdempotent ==
    op.name = "style" =>
        /\ op.ret = op.style
        /\ DefinitionsOf(auto_styles, op.style) = 1
        /\ DefinitionsOf(prevStyles, op.style) >= 1 =>
               auto_styles.styles = prevStyles.styles
        /\ DefinitionsOf(prevStyles, op.style) = 0 =>
               /\ Len(auto_styles.styles) = Len(prevStyles.styles) + 1
               /\ SubSeq(auto_styles.styles, 1, Len(prevStyles.styles)) =
                      prevStyles.styles

\* A repeated call: the name was defined, with another colour, and other
\* names are defined too.
C14_Witness ==
    /\ op.name = "style"
    /\ DefinitionsOf(prevStyles, op.style) = 1
    /\ Len(prevStyles.styles) >= 3
    /\ \E k \in 1..Len(prevStyles.styles) :
           /\ prevStyles.styles[k].name = op.style
           /\ prevStyles.styles[k].bg = "#ff0000"

\* ------------------------------------------------------------ claims: save

\* The members save() writes for the loaded archive and the tree in memory.
NewMembers ==
    [k \in 1..Len(original.members) |->
        SavedMember(original, original.members[k], auto_styles, table)]

\* C15: at every step of save, a failure at any step included, the destination
\* path holds a complete archive, the previous one or the new one.
C15_DestinationAlwaysWhole ==
    /\ dest.exists
    /\ dest.complete
    /\ dest.members = original.members \/ dest.members = NewMembers

\* The names of the members of an archive, in order.
NamesOf(archive) == [k \in 1..Len(archive.members) |-> archive.members[k].name]

\* The tree load() read, and the tree in memory.
LoadedTree == parse(ReadMember(original, "content.xml"))
TreeNow == [reg |-> auto_styles, table |-> table]

\* save() has returned.
Saved == pc = "done"

\* C16: the archive save() leaves has the members of the loaded one, in the
\* same order; every member other than content.xml is as it was loaded;
\* content.xml is the serialization of the tree in memory and parses back to
\* that tree, so to the loaded tree when nothing was changed since load.
C16_SavedArchive ==
    Saved =>
        /\ dest.exists /\ dest.complete
        /\ NamesOf(dest) = NamesOf(original)
        /\ \A k \in 1..Len(dest.members) :
               dest.members[k].name # "content.xml" =>
                   dest.members[k] = original.members[k]
        /\ ReadMember(dest, "content.xml") = tostring(auto_styles, table)
        /\ parse(ReadMember(dest, "content.xml")) = TreeNow
        /\ TreeNow = LoadedTree => parse(ReadMember(dest, "content.xml")) = LoadedTree

\* A save after a holiday was written and the styles were ensured.
C16_Witness ==
    /\ Saved
    /\ table # LoadedTree.table
    /\ auto_styles # LoadedTree.reg
    /\ \E k \in 1..Len(table[1]) : table[1][k].rep >= 2

\* A save with nothing changed since load, of a tree with text and styles.
C16_WitnessUnchanged ==
    /\ Saved
    /\ TreeNow = LoadedTree
    /\ auto_styles.styles # <<>>
    /\ \E k \in 1..Len(table[1]) : table[1][k].p # <<>>

\* ----------------------------------------------------------- claims: fetch

RECURSIVE RecordsOfSucceeded(_)
\* The records of the requests that succeeded, in request order.
RecordsOfSucceeded(reqs) ==
    IF reqs = <<>> THEN <<>>
    ELSE (IF Head(reqs).outcome = "ok" THEN Head(reqs).records ELSE <<>>)
         \o RecordsOfSucceeded(Tail(reqs))

RECURSIVE FirstOccurrences(_)
\* A list without the repetitions of its earlier elements.
FirstOccurrences(l) ==
    IF l = <<>> THEN <<>>
    ELSE LET front == SubSeq(l, 1, Len(l) - 1)
             x == l[Len(l)]
         IN  IF \E k \in 1..Len(front) : front[k] = x
             THEN FirstOccurrences(front)
             ELSE Append(FirstOccurrences(front), x)

\* The URL the claim expects for a year: the country's page, then the year.
PageOf(year) == <<"countries", "france", ToString(year)>>

\* C17: whatever each request ends in, fetch_holidays holds, and returns,
\* exactly the records of the requests that succeeded, in request order; no
\* URL is requested twice; when it returns, it has requested the page of each
\* distinct year of its list once, in the order of the list.
C17_FetchReturnsSucceeded ==
    /\ fetch.all_holidays = RecordsOfSucceeded(fetch.requests)
    /\ \A j, k \in 1..Len(fetch.requests) :
           fetch.requests[j].url = fetch.requests[k].url => j = k
    /\ fetch.returned =>
           [k \in 1..Len(fetch.requests) |-> fetch.requests[k].url] =
               [k \in 1..Len(FirstOccurrences(fetch.years)) |->
                   PageOf(FirstOccurrences(fetch.years)[k])]

\* A returned call of three years, one repeated: a request that failed between
\* two that brought records.
C17_Witness ==
    /\ fetch.returned
    /\ Len(fetch.years) = 3
    /\ Len(fetch.requests) = 2
    /\ fetch.years[1] = fetch.years[3]
    /\ fetch.requests[1].outcome = "ok" /\ fetch.requests[1].records # <<>>
    /\ fetch.requests[2].outcome = "http404"
    /\ fetch.base_url[Len(fetch.base_url)] = "2025"

\* A returned call whose first request timed out and whose later ones brought
\* records.
C17_WitnessFailedFirst ==
    /\ fetch.returned
    /\ Len(fetch.requests) = 2
    /\ fetch.requests[1].outcome = "timeout"
    /\ fetch.requests[2].outcome = "ok" /\ fetch.requests[2].records # <<>>

\* ------------------------------------------------- claims: holiday loop

\* The lines printed that name a day as missing from the calendar.
MissLines(d) ==
    { k \in 1..Len(main.printed) :
        main.printed[k].kind = "miss" /\ main.printed[k].date = d }

\* C18: a record whose day is not a key of the date map is not written, the
\* run prints a line naming the miss, and the loop goes on.
C18_MissReported ==
    (op.name = "holiday" /\ op.date \notin DOMAIN date_map) =>
        /\ table = prev
        /\ main.pc \in {"loop", "done"}
        /\ MissLines(op.date) # {}

\* The part of C18 the loop keeps: a record whose day is not a key of the
\* date map leaves every row as it was, and the loop is at the next record.
C18_MissNotWritten ==
    (op.name = "holiday" /\ op.date \notin DOMAIN date_map) =>
        /\ table = prev
        /\ ~op.found
        /\ main.pc \in {"loop", "done"}
        /\ main.holidays[main.i - 1].date = op.date

\* A run that passed over a day outside the calendar and then wrote one.
C18_Witness ==
    /\ main.pc = "done"
    /\ Len(main.holidays) = 2
    /\ main.holidays[1].date \notin DOMAIN date_map
    /\ main.holidays[2].date \in DOMAIN date_map
    /\ main.count = 1
    /\ \E k \in 1..Len(table[2]) : table[2][k].p = <<main.holidays[2].name>>

\* ------------------------------------------------------- claims: run widths

\* C19: after any sequence of locateCell, setCellText, applyStyleRange and
\* buildHeader on rows whose runs start with repeat-count >= 1, every run of
\* every row has repeat-count >= 1.
C19_RunsNeverEmpty ==
    \A r \in 1..Len(table) : \A k \in 1..Len(table[r]) : table[r][k].rep >= 1

\* A row that went through a split, an extension and a header cell: a call
\* split a run or extended the row, and the row holds a day of the calendar
\* and a run of more than one column.
C19_Witness ==
    /\ op.name \in {"locate", "text", "apply"}
    /\ Len(table[1]) > Len(prev[1])
    /\ date_map # <<>>
    /\ \E k \in 1..Len(table[1]) : table[1][k].rep >= 2
    /\ \E k \in 1..Len(table[1]) : table[1][k].p # <<>> /\ table[1][k].vtype = "string"

\* ---------------------------------------------------- claims: cell not found

\* C20: locateCell returns "not found" and leaves every row as it was when the
\* row index is beyond the last row, or when col is beyond the row's width and
\* autoExtend is false.
C20_NotFoundLeavesSheet ==
    (/\ op.name = "locate"
     /\ \/ op.row >= Len(prev)
        \/ op.col >= WidthOf(prev[op.row + 1]) /\ ~op.auto) =>
        /\ ~op.found
        /\ table = prev

\* A call without autoExtend for a column beyond the width of a row that has
\* cells.
C20_Witness ==
    /\ op.name = "locate"
    /\ op.row < Len(prev)
    /\ prev[op.row + 1] # <<>>
    /\ op.col >= WidthOf(prev[op.row + 1])
    /\ ~op.auto
    /\ ~op.found

\* A call with autoExtend for a row beyond the last row.
C20_WitnessNoRow ==
    /\ op.name = "locate"
    /\ op.row >= Len(prev)
    /\ op.auto
    /\ ~op.found
    /\ prev # <<>>

\* ------------------------------------------------- claims: country rows

RECURSIVE ColNames(_)
\* The style each logical column of a row carries, one per column.
ColNames(row) ==
    IF row = <<>> THEN <<>>
    ELSE [k \in 1..Count(Head(row)) |-> Head(row).style] \o ColNames(Tail(row))

\* The status a reader of the loaded row finds at column 0.
LoadedStatus ==
    IF main.loaded = <<>> THEN "Blank" ELSE StatusOf(Head(main.loaded))

\* The last calendar column.
LastCol == EndColIdx(date_map, main.duration)

\* The country row now.
RowNow == table[main.row_idx + 1]

\* C21: a country row whose status cell reads "no" ends with Grey on every
\* column from 0 through the last calendar column, whatever style was there,
\* no fetch is issued and no holiday is written for it.
C21_NoRowGrey ==
    (main.pc \in {"url", "loop", "done"} /\ LoadedStatus = "No") =>
        /\ main.pc = "done"
        /\ WidthOf(RowNow) > LastCol
        /\ \A c \in 0..LastCol : ColNames(RowNow)[c + 1] = GREY
        /\ fetch = NewFetch(<<>>, <<>>)
        /\ main.holidays = <<>> /\ main.count = 0

\* The part of C21 the run keeps: a row whose status the run itself reads as
\* "No" ends Grey through the last calendar column, without fetch or write.
C21_ReadNoRowGrey ==
    (op.name = "colour" /\ op.text = "No") =>
        /\ main.pc = "done"
        /\ WidthOf(RowNow) > LastCol
        /\ \A c \in 0..LastCol : ColNames(RowNow)[c + 1] = GREY
        /\ fetch = NewFetch(<<>>, <<>>)
        /\ main.holidays = <<>> /\ main.count = 0

\* A "no" row that held a Pink run with a text: the run left it Grey.
C21_Witness ==
    /\ op.name = "colour" /\ op.text = "No"
    /\ LoadedStatus = "No"
    /\ \E k \in 1..Len(main.loaded) : main.loaded[k].style = PINK
    /\ main.pc = "done"

\* The records the loop has handled that the date map sends to column c.
RecordsOn(c) ==
    { k \in 1..(main.i - 1) :
        /\ Mapped(main.holidays[k].date)
        /\ date_map[Normalized(main.holidays[k].date)] = c }

\* The style column c of the loaded row carried (None beyond its width).
LoadedStyle(c) ==
    IF c < WidthOf(main.loaded) THEN ColNames(main.loaded)[c + 1] ELSE None

\* C22: for a country row whose status is "yes", the row-colouring pass leaves
\* every Amber or Pink cell as it is, and at the end of the run each holiday
\* column carries Amber for a national record and Pink for a regional one,
\* every other column through the last calendar column carrying Green.
C22_YesRowColours ==
    LoadedStatus = "Yes" =>
        /\ op.name = "colour" =>
               \A c \in 0..(WidthOf(prev[main.row_idx + 1]) - 1) :
                   ColNames(prev[main.row_idx + 1])[c + 1] \in {AMBER, PINK} =>
                       ColNames(RowNow)[c + 1] = ColNames(prev[main.row_idx + 1])[c + 1]
        /\ main.pc = "done" =>
               /\ WidthOf(RowNow) > LastCol
               /\ \A c \in 0..LastCol :
                      IF RecordsOn(c) # {}
                      THEN \A k \in RecordsOn(c) :
                               ColNames(RowNow)[c + 1] =
                                   HolidayStyle(main.holidays[k].is_national)
                      ELSE ColNames(RowNow)[c + 1] = GREEN

\* The part of C22 the run keeps: for a row the run itself reads as "Yes", the
\* pass leaves Amber and Pink cells as they are, and at the end a holiday
\* column carries the style of the last record of its day, every other column
\* what it carried if that was Amber or Pink, and Green otherwise.
C22_ReadYesRowColours ==
    main.status = "Yes" =>
        /\ op.name = "colour" =>
               \A c \in 0..(WidthOf(prev[main.row_idx + 1]) - 1) :
                   ColNames(prev[main.row_idx + 1])[c + 1] \in {AMBER, PINK} =>
                       ColNames(RowNow)[c + 1] = ColNames(prev[main.row_idx + 1])[c + 1]
        /\ main.pc = "done" =>
               /\ WidthOf(RowNow) > LastCol
               /\ \A c \in 0..LastCol :
                      ColNames(RowNow)[c + 1] =
                          IF RecordsOn(c) # {}
                          THEN HolidayStyle(main.holidays[
                                   CHOOSE k \in RecordsOn(c) :
                                       \A j \in RecordsOn(c) : j <= k].is_national)
                          ELSE IF LoadedStyle(c) \in {AMBER, PINK} THEN LoadedStyle(c)
                          ELSE GREEN

\* A "yes" row at the end of its run: a national and a regional record
\* written on two days.
C22_Witness ==
    /\ main.status = "Yes"
    /\ main.pc = "done"
    /\ main.count = 2
    /\ main.holidays[1].is_national /\ ~main.holidays[2].is_national
    /\ main.holidays[1].date # main.holidays[2].date

\* ---------------------------------------------- claims: date map in a run

\* The map buildHeader makes for the calendar of the run: day i of the window
\* at the column i places after the header's title columns.
FullMap ==
    [d \in { AddDays(main.start_date, i) : i \in 0..(main.duration - 1) } |->
        WidthOf(TemplateHeader)
          + (CHOOSE i \in 0..(main.duration - 1) : AddDays(main.start_date, i) = d)]

\* C23: the date map is fully built by buildHeader before the first holiday
\* write of a run, and nothing after it in the run (locateCell, setCellText,
\* applyStyleRange, fetch, save) adds, removes or changes an entry: from the
\* header step on, in every state of the run, the map is the one buildHeader
\* made.
C23_DateMapBuiltOnce ==
    /\ main.pc = "start" => date_map = <<>>
    /\ main.pc # "start" =>
           /\ DOMAIN date_map = DOMAIN FullMap
           /\ \A d \in DOMAIN FullMap : date_map[d] = FullMap[d]

\* A run that coloured the row, fetched, wrote a holiday and saved.
C23_Witness ==
    /\ pc = "done"
    /\ main.pc = "done"
    /\ main.status = "Yes"
    /\ fetch.returned
    /\ main.count >= 1
    /\ main.duration = MaxDays

\* ------------------------------------------------ claims: locating twice

\* C25: a locateCell(row, col) issued right after a locateCell(row, col) that
\* returned a cell changes no run of any row and returns the same cell, a run
\* of repeat-count 1.
C25_LocateTwice ==
    (op.name = "locate" /\ op.again) =>
        /\ table = prev
        /\ op.found
        /\ op.idx = op.wasIdx
        /\ table[op.row + 1][op.idx].rep = 1

\* The second of two calls on a column of a row with a run of more than one
\* column left of the cell: the first call split a run.
C25_Witness ==
    /\ op.name = "locate" /\ op.again
    /\ op.idx >= 2
    /\ table[op.row + 1][op.idx - 1].rep >= 2

\* ------------------------------------------- claims: date map and header

\* C26: every entry date -> c of the date map has c within the header row's
\* logical width, header column c displays that date, and distinct dates map
\* to distinct columns, after any number of buildHeader calls and any
\* locateCell, setCellText or applyStyleRange calls on country rows.
C26_MapMatchesHeader ==
    \A d \in DOMAIN date_map :
        /\ date_map[d] >= 0
        /\ date_map[d] < WidthOf(table[1])
        /\ expand_row(table[1])[date_map[d] + 1] = DateStr(d)
        /\ \A e \in DOMAIN date_map : date_map[e] = date_map[d] => e = d

\* A header built twice over a common day, which the map sends to the later
\* of its two columns, and a holiday then written on the country row.
C26_Witness ==
    /\ op.name = "text"
    /\ table # prev
    /\ \E d \in DOMAIN date_map :
           \E c \in 0..(date_map[d] - 1) : expand_row(table[1])[c + 1] = DateStr(d)

\* --------------------------------------- claims: records of the same day

\* The cell of a row that covers a logical column.
CellOfColumn(row, c) ==
    row[CHOOSE k \in 1..Len(row) :
            ColStart(row, k) <= c /\ c < ColStart(row, k) + Count(row[k])]

\* The records the loop is through that were written on a day.
WrittenOn(d) ==
    { k \in 1..(main.i - 1) :
        main.holidays[k].date = d /\ Mapped(main.holidays[k].date) }

\* C27: when several fetched records of a country fall on the same day of the
\* calendar, the cell of that day holds only the name and the style (Amber or
\* Pink) of the last of them in fetch order; earlier names are neither kept
\* nor concatenated.
C27_LastRecordWins ==
    main.pc \in {"loop", "done"} =>
        \A k \in 1..(main.i - 1) :
            LET h == main.holidays[k] IN
            (k \in WrittenOn(h.date) /\ \A j \in WrittenOn(h.date) : j <= k) =>
                LET cell == CellOfColumn(RowNow, date_map[Normalized(h.date)])
                IN  /\ cell.p = <<h.name>>
                    /\ cell.style = HolidayStyle(h.is_national)
                    /\ Count(cell) = 1

\* The loop is over two records of one day, a national one then a regional
\* one, and both were written.
C27_Witness ==
    /\ main.pc = "done"
    /\ main.count = 2
    /\ Len(main.holidays) = 2
    /\ main.holidays[1].date = main.holidays[2].date
    /\ main.holidays[1].name # main.holidays[2].name
    /\ HolidayStyle(main.holidays[1].is_national) # HolidayStyle(main.holidays[2].is_national)

\* ---------------------------------------------- claims: what a call keeps

\* C28: locateCell, setCellText and applyStyleRange applied to a row never
\* change any other row (its runs, texts or styles), the style registry or
\* the date map.
C28_OtherRowsKept ==
    [][ op'.name \in {"locate", "text", "apply"} =>
            /\ Len(table') = Len(table)
            /\ \A r \in 1..Len(table) : r # op'.row + 1 => table'[r] = table[r]
            /\ auto_styles' = auto_styles
            /\ date_map' = date_map ]_vars

\* A call that changed the header row of a sheet with a country row that
\* holds cells, a date map with a day and a registry with styles.
C28_Witness ==
    /\ op.name \in {"text", "apply"}
    /\ op.row = 0
    /\ Len(table) = 2
    /\ table[1] # prev[1]
    /\ table[2] # <<>>
    /\ date_map # <<>>
    /\ auto_styles # NoRegistry

\* A call that changed the country row, under a header with a calendar.
C28_WitnessCountry ==
    /\ op.name = "locate"
    /\ op.row = 1
    /\ table[2] # prev[2]
    /\ table[1] # <<>>
    /\ date_map # <<>>

====
